---- MODULE Spec2Model ----
(***************************************************************************)
(* A model of mcp-radarr: the key-path projection (filter_keys), the URL   *)
(* rewriter (convert_urls_to_absolute), the status derivation              *)
(* (radarr_status) of filters.py, and the search_for_movie and edit_movie  *)
(* tools of server.py.                                                     *)
(*                                                                         *)
(* JSON values are tagged records: [t |-> "num"|"str"|"bool"|"null"|       *)
(* "dict"|"list", v |-> payload].  A Python str is a sequence of           *)
(* one-character strings, so that startswith and concatenation are         *)
(* computed; a dict is a function from its keys; a list is a sequence.     *)
(* A dotted key-path "a.b" is the sequence of its segments <<"a", "b">>:   *)
(* '.' in k is Len(k) > 1 and k.split('.', 1) is <<Head(k), Tail(k)>>.     *)
(***************************************************************************)
EXTENDS Integers, Sequences, FiniteSets, TLC

VARIABLES
    data,       \* filter_keys / convert_urls_to_absolute: the record passed in
                \* (convert_urls_to_absolute changes it in place)
    keys,       \* filter_keys / convert_urls_to_absolute: the list of key-paths
    result,     \* what the call under study returned (None before it returns)
    again,      \* filter_keys applied to its own result (None before that)
    source,     \* the value data had when convert_urls_to_absolute was called
    pc,         \* search_for_movie / edit_movie: where the call is
    criteria,   \* search_for_movie: the criteria argument
    includeFields,  \* search_for_movie: the includeFields argument
    movies,     \* search_for_movie: the list fetched from the remote
    pos,        \* search_for_movie / edit_movie: the index of the loop
    results,    \* search_for_movie: the list results
    edits,      \* edit_movie: the edits argument
    requests,   \* the requests made of the remote so far, with their status
    tmdbId,     \* add_movie: the tmdbId argument
    rootFolderPath, \* add_movie: the rootFolderPath argument, then the local
    movieLocal, \* add_movie: the local variable movie (Unbound before line 234)
    titleArg,   \* movie_info: the title argument
    api,        \* the RadarrAPI object the tools share (None when no tool runs)
    calls       \* concurrent invocations: the frame of each, its locals

filterVars == <<data, keys, again, source>>
searchVars == <<criteria, includeFields, movies, results>>
editVars == <<edits, requests>>
addVars == <<tmdbId, rootFolderPath, movieLocal>>
vars == <<data, keys, result, again, source, pc, criteria, includeFields, movies,
          pos, results, edits, requests, tmdbId, rootFolderPath, movieLocal, titleArg, api, calls>>

-----------------------------------------------------------------------------
(* JSON values *)

Null == [t |-> "null", v |-> 0]
Num(n) == [t |-> "num", v |-> n]
Bool(b) == [t |-> "bool", v |-> b]
Str(s) == [t |-> "str", v |-> s]
Dict(f) == [t |-> "dict", v |-> f]
List(s) == [t |-> "list", v |-> s]

\* a value no call has produced yet
None == [t |-> "none", v |-> 0]

\* the variables of the calls a specification does not make
IdleFilter == data = None /\ keys = <<>> /\ again = None /\ source = None
IdleSearch ==
    /\ criteria = None /\ includeFields = Null /\ movies = None
    /\ results = <<>>
IdleEdit == edits = None /\ requests = <<>>
IdleAdd == tmdbId = None /\ rootFolderPath = None /\ movieLocal = None
IdleInfo == titleArg = None
IdleCalls == api = None /\ calls = <<>>

IsDict(x) == x.t = "dict"
IsList(x) == x.t = "list"
IsStr(x) == x.t = "str"

\* the empty dict: a function with no key
EmptyMap == [k \in {} |-> Null]

\* d[k] = v on a Python dict
Put(d, k, v) == [x \in (DOMAIN d) \cup {k} |-> IF x = k THEN v ELSE d[x]]

-----------------------------------------------------------------------------
(* filter_keys, filters.py:6-42 *)

\* keys without a dot, as the set top_level (lines 16-23)
TopLevel(ks) == {ks[i][1] : i \in {j \in 1..Len(ks) : Len(ks[j]) = 1}}

\* the first segments of the dotted keys, in the order nested's keys were
\* inserted: by first occurrence (lines 17-21)
RECURSIVE NestedOrder(_, _)
NestedOrder(ks, seen) ==
    IF ks = <<>> THEN <<>>
    ELSE IF Len(Head(ks)) > 1 /\ Head(ks)[1] \notin seen
         THEN <<Head(ks)[1]>> \o NestedOrder(Tail(ks), seen \cup {Head(ks)[1]})
         ELSE NestedOrder(Tail(ks), seen)

\* nested[first]: the rests of the dotted keys that start with first, in order
RECURSIVE Subkeys(_, _)
Subkeys(ks, first) ==
    IF ks = <<>> THEN <<>>
    ELSE IF Len(Head(ks)) > 1 /\ Head(ks)[1] = first
         THEN <<Tail(Head(ks))>> \o Subkeys(Tail(ks), first)
         ELSE Subkeys(Tail(ks), first)

\* the copy of the direct keys without the test `k in data`
CopyTopLevelNoGuard(d, top) ==
    [k \in (IF "*" \in top THEN DOMAIN d ELSE {}) \cup (top \ {"*"})
        |-> IF k \in DOMAIN d THEN d[k] ELSE Null]

\* lines 24-29: the copy of the direct keys
CopyTopLevel(d, top) ==
    [k \in (IF "*" \in top THEN DOMAIN d ELSE {}) \cup (top \cap DOMAIN d)
        |-> d[k]]

RECURSIVE filter_keys(_, _)
RECURSIVE FilterEach(_, _)
RECURSIVE ApplyNested(_, _, _, _)

\* a comprehension without its condition: an item that is no mapping is kept
RECURSIVE FilterEachKept(_, _)
FilterEachKept(items, ks) ==
    IF items = <<>> THEN <<>>
    ELSE IF IsDict(Head(items))
         THEN <<filter_keys(Head(items), ks)>> \o FilterEachKept(Tail(items), ks)
         ELSE <<Head(items)>> \o FilterEachKept(Tail(items), ks)

\* [filter_keys(item, keys) for item in data if isinstance(item, dict)]
FilterEach(items, ks) ==
    IF items = <<>> THEN <<>>
    ELSE IF IsDict(Head(items))
         THEN <<filter_keys(Head(items), ks)>> \o FilterEach(Tail(items), ks)
         ELSE FilterEach(Tail(items), ks)

\* a nested group that selects the value at a one-segment rest instead of
\* projecting the mapping that holds it
NestedValueSelects(val, sub) ==
    IF IsDict(val) /\ Len(sub) = 1 /\ Len(sub[1]) = 1 /\ sub[1][1] \in DOMAIN val.v
    THEN val.v[sub[1][1]]
    ELSE IF IsDict(val) THEN filter_keys(val, sub)
    ELSE List(FilterEach(val.v, sub))

\* lines 33-36 and 38-41: the value stored for one key of a nested group,
\* whose value is a dict or a list
NestedValue(val, sub) ==
    IF IsDict(val) THEN filter_keys(val, sub)
    ELSE List(FilterEach(val.v, sub))

\* nested groups that store a key also when its value is a scalar or null
RECURSIVE ApplyNestedAnyValue(_, _, _, _)
ApplyNestedAnyValue(d, res, ks, order) ==
    IF order = <<>> THEN res
    ELSE LET k == Head(order)
             sub == Subkeys(ks, k)
             hit == IF k = "*" THEN DOMAIN d ELSE {k} \cap DOMAIN d
             next == [a \in (DOMAIN res) \cup hit |->
                        IF a \in hit
                        THEN (IF IsDict(d[a]) \/ IsList(d[a])
                              THEN NestedValue(d[a], sub) ELSE d[a])
                        ELSE res[a]]
         IN  ApplyNestedAnyValue(d, next, ks, Tail(order))

\* lines 30-41: the nested groups, one after the other, each overwriting
\* what an earlier group or the direct keys stored under the same key
ApplyNested(d, res, ks, order) ==
    IF order = <<>> THEN res
    ELSE LET k == Head(order)
             sub == Subkeys(ks, k)
             hit == IF k = "*" THEN {a \in DOMAIN d : IsDict(d[a]) \/ IsList(d[a])}
                    ELSE {a \in {k} \cap DOMAIN d : IsDict(d[a]) \/ IsList(d[a])}
             next == [a \in (DOMAIN res) \cup hit |->
                        IF a \in hit THEN NestedValue(d[a], sub) ELSE res[a]]
         IN  ApplyNested(d, next, ks, Tail(order))

filter_keys(d, ks) ==
    IF IsList(d) THEN List(FilterEach(d.v, ks))
    ELSE Dict(ApplyNested(d.v, CopyTopLevel(d.v, TopLevel(ks)), ks,
                          NestedOrder(ks, {})))

-----------------------------------------------------------------------------
(* The inputs of the projection *)

MaxKeys == 2        \* the longest key-path list
MaxListLen == 1     \* the longest list inside a record

Maps(K, V) == UNION {[S -> V] : S \in SUBSET K}
Lists(V, n) == UNION {[1..m -> V] : m \in 0..n}

InnerDicts == {Dict(f) : f \in Maps({"x", "y"}, {Num(1)})}
Level1 == {Num(1), Null} \cup InnerDicts
            \cup {List(s) : s \in Lists({Num(1)} \cup InnerDicts, MaxListLen)}
DeepDict == Dict([x |-> Dict([z |-> Num(1), w |-> Num(2)]), y |-> Num(1)])

Records ==
    {Dict(f) : f \in {g \in Maps({"a", "b"}, Level1 \cup {DeepDict}) :
                        "b" \in DOMAIN g => g["b"] \in {Num(1), DeepDict}}}

KeyPaths == {<<"a">>, <<"b">>, <<"*">>, <<"a", "x">>, <<"a", "y">>, <<"a", "*">>,
             <<"*", "x">>, <<"b", "x", "z">>}
KeyLists == Lists(KeyPaths, MaxKeys)

-----------------------------------------------------------------------------
(* filter_keys(data, keys), and filter_keys on what it returned *)

InitFilter ==
    /\ data \in Records
    /\ keys \in KeyLists
    /\ result = None
    /\ again = None
    /\ source = None
    /\ pc = "call"
    /\ pos = 0
    /\ IdleSearch
    /\ IdleEdit
    /\ IdleAdd
    /\ IdleInfo
    /\ IdleCalls

Project ==
    /\ result = None
    /\ result' = filter_keys(data, keys)
    /\ UNCHANGED <<data, keys, again, source, pc, pos, searchVars, editVars, addVars, titleArg, api, calls>>

Reproject ==
    /\ result # None
    /\ again = None
    /\ again' = filter_keys(result, keys)
    /\ UNCHANGED <<data, keys, result, source, pc, pos, searchVars, editVars, addVars, titleArg, api, calls>>

NextFilter == Project \/ Reproject

SpecFilter == InitFilter /\ [][NextFilter]_vars

-----------------------------------------------------------------------------
(* Projection: the claims *)

\* the key chains of a value: the sequences of keys that lead from it to a
\* value inside it, a list being transparent (a key-path has no segment for
\* a list index)
RECURSIVE Chains(_)
Chains(x) ==
    IF IsDict(x)
    THEN UNION {{<<k>>} \cup {<<k>> \o c : c \in Chains(x.v[k])} : k \in DOMAIN x.v}
    ELSE IF IsList(x) THEN UNION {Chains(x.v[i]) : i \in 1..Len(x.v)}
    ELSE {}

Min(m, n) == IF m < n THEN m ELSE n

\* key-path p reaches chain c: segment by segment, as far as both go, p names
\* c's key or is the wildcard; a shorter p copied the value at its end whole
Reaches(p, c) == \A i \in 1..Min(Len(p), Len(c)) : p[i] \in {c[i], "*"}

\* C1: every key of filter_keys(r, F), at the top level and in every nested
\* mapping, is a key r has at the same place and is reached by a key-path of
\* F (named, a first segment, or under a wildcard); no key is invented.
C1_NoInventedKey ==
    result # None =>
        \A c \in Chains(result) :
            /\ c \in Chains(data)
            /\ \E i \in 1..Len(keys) : Reaches(keys[i], c)

\* a projection that kept a nested key through a dotted path
C1_Witness ==
    /\ result # None
    /\ \E c \in Chains(result) : Len(c) = 2
    /\ \E c \in Chains(data) : c \notin Chains(result)
    /\ \E i \in 1..Len(keys) : Len(keys[i]) > 1

\* C2: filter_keys(filter_keys(r, F), F) = filter_keys(r, F).
C2_Idempotent == again # None => again = result

\* a second projection with a direct key, a dotted path and a wildcard path
\* on the same first segment, after a first one that dropped something
C2_Witness ==
    /\ again # None
    /\ result # data
    /\ \E i, j \in 1..Len(keys) :
        /\ keys[i] = <<"a">>
        /\ keys[j] \in {<<"a", "x">>, <<"*", "x">>}
    /\ "a" \in DOMAIN result.v /\ IsDict(result.v["a"])

-----------------------------------------------------------------------------
(* convert_urls_to_absolute, filters.py:87-153 *)

\* api.get_url(): the base origin the RadarrAPI object was built with
api_url == <<"h", ":">>

\* Python's truth value of a JSON value, negated: `not data`
Falsy(x) ==
    \/ x.t = "null"
    \/ x.t = "num" /\ x.v = 0
    \/ x.t = "bool" /\ ~x.v
    \/ x.t = "str" /\ x.v = <<>>
    \/ x.t = "dict" /\ DOMAIN x.v = {}
    \/ x.t = "list" /\ x.v = <<>>

\* a rewrite that always inserts the '/'
convert_url_value_slash(value) ==
    IF ~IsStr(value) \/ value.v = <<>> THEN value
    ELSE Str(api_url \o <<"/">> \o value.v)

\* a rewrite that also turns a number into a URL
convert_url_value_any(value) ==
    IF value.t = "num" THEN Str(api_url \o <<"/", ToString(value.v)>>)
    ELSE IF ~IsStr(value) \/ value.v = <<>> THEN value
    ELSE IF Head(value.v) = "/" THEN Str(api_url \o value.v)
    ELSE Str(api_url \o <<"/">> \o value.v)

\* a rewrite that leaves alone a string that already begins with the base
convert_url_value_once(value) ==
    IF ~IsStr(value) \/ value.v = <<>> THEN value
    ELSE IF Len(value.v) >= Len(api_url) /\ SubSeq(value.v, 1, Len(api_url)) = api_url
    THEN value
    ELSE IF Head(value.v) = "/" THEN Str(api_url \o value.v)
    ELSE Str(api_url \o <<"/">> \o value.v)

\* lines 99-107
convert_url_value(value) ==
    IF ~IsStr(value) \/ value.v = <<>> THEN value
    ELSE IF Head(value.v) = "/" THEN Str(api_url \o value.v)
    ELSE Str(api_url \o <<"/">> \o value.v)

\* a walk whose intermediate wildcard enters only the first element of a
\* sequence
RECURSIVE process_path_first(_, _)
process_path_first(d, path_parts) ==
    IF Falsy(d) \/ path_parts = <<>> THEN d
    ELSE LET current == Head(path_parts)
             remaining == Tail(path_parts)
         IN
         IF remaining = <<>>
         THEN IF current = "*"
              THEN IF IsDict(d)
                   THEN Dict([k \in DOMAIN d.v |->
                            IF IsStr(d.v[k]) THEN convert_url_value(d.v[k])
                            ELSE d.v[k]])
                   ELSE IF IsList(d)
                   THEN List([i \in 1..Len(d.v) |->
                            IF IsStr(d.v[i]) THEN convert_url_value(d.v[i])
                            ELSE d.v[i]])
                   ELSE d
              ELSE IF IsDict(d) /\ current \in DOMAIN d.v
                   THEN Dict(Put(d.v, current, convert_url_value(d.v[current])))
                   ELSE d
         ELSE IF current = "*"
              THEN IF IsDict(d)
                   THEN Dict([k \in DOMAIN d.v |-> process_path_first(d.v[k], remaining)])
                   ELSE IF IsList(d)
                   THEN List([i \in 1..Len(d.v) |->
                            IF i = 1 THEN process_path_first(d.v[i], remaining)
                            ELSE d.v[i]])
                   ELSE d
              ELSE IF IsDict(d) /\ current \in DOMAIN d.v
                   THEN Dict(Put(d.v, current, process_path_first(d.v[current], remaining)))
                   ELSE d

\* lines 109-146: data after process_path(data, path_parts), which changes
\* the dicts and lists it walks in place
RECURSIVE process_path(_, _)
process_path(d, path_parts) ==
    IF Falsy(d) \/ path_parts = <<>> THEN d
    ELSE LET current == Head(path_parts)
             remaining == Tail(path_parts)
         IN
         IF remaining = <<>>
         THEN IF current = "*"
              THEN IF IsDict(d)
                   THEN Dict([k \in DOMAIN d.v |->
                            IF IsStr(d.v[k]) THEN convert_url_value(d.v[k])
                            ELSE d.v[k]])
                   ELSE IF IsList(d)
                   THEN List([i \in 1..Len(d.v) |->
                            IF IsStr(d.v[i]) THEN convert_url_value(d.v[i])
                            ELSE d.v[i]])
                   ELSE d
              ELSE IF IsDict(d) /\ current \in DOMAIN d.v
                   THEN Dict(Put(d.v, current, convert_url_value(d.v[current])))
                   ELSE d
         ELSE IF current = "*"
              THEN IF IsDict(d)
                   THEN Dict([k \in DOMAIN d.v |-> process_path(d.v[k], remaining)])
                   ELSE IF IsList(d)
                   THEN List([i \in 1..Len(d.v) |-> process_path(d.v[i], remaining)])
                   ELSE d
              ELSE IF IsDict(d) /\ current \in DOMAIN d.v
                   THEN Dict(Put(d.v, current, process_path(d.v[current], remaining)))
                   ELSE d

\* a rewriter that first creates the top-level key a path names
RECURSIVE convert_urls_to_absolute_creating(_, _)
convert_urls_to_absolute_creating(d, ks) ==
    IF ks = <<>> THEN d
    ELSE LET first == Head(Head(ks))
             made == IF IsDict(d) /\ first # "*" /\ first \notin DOMAIN d.v
                     THEN Dict(Put(d.v, first, Str(<<>>))) ELSE d
         IN  convert_urls_to_absolute_creating(process_path(made, Head(ks)), Tail(ks))

\* lines 148-153: every key-path in turn; key.split('.') is the path itself
RECURSIVE convert_urls_to_absolute(_, _)
convert_urls_to_absolute(d, ks) ==
    IF ks = <<>> THEN d
    ELSE convert_urls_to_absolute(process_path(d, Head(ks)), Tail(ks))

(* The inputs of the rewriter *)

UrlLeaves == {Str(<<"/", "a">>), Str(<<"b">>), Str(<<>>), Num(1)}
UrlDicts == {Dict([url |-> x]) : x \in UrlLeaves}
                \cup {Dict([url |-> Str(<<"b">>), alt |-> Str(<<>>)])}
UrlItems == UrlDicts \cup {Str(<<"/", "a">>), Num(1)}

UrlRecords ==
    {Dict(f) : f \in {g \in Maps({"u", "n", "images"},
                                  UrlLeaves \cup UrlDicts
                                    \cup {List(l) : l \in Lists(UrlItems, MaxListLen)}) :
        /\ "u" \in DOMAIN g => g["u"] \in UrlLeaves
        /\ "n" \in DOMAIN g => g["n"] \in UrlDicts
        /\ "images" \in DOMAIN g => IsList(g["images"])}}

UrlPaths == {<<"u">>, <<"n", "url">>, <<"n", "*">>, <<"images", "*", "url">>,
             <<"images", "*">>, <<"*">>, <<"x", "url">>}
UrlPathLists == Lists(UrlPaths, MaxKeys)

InitUrls ==
    /\ data \in UrlRecords
    /\ keys \in UrlPathLists
    /\ source = data
    /\ result = None
    /\ again = None
    /\ pc = "call"
    /\ pos = 0
    /\ IdleSearch
    /\ IdleEdit
    /\ IdleAdd
    /\ IdleInfo
    /\ IdleCalls

\* convert_urls_to_absolute(data, keys, api): data is changed and returned
ConvertUrls ==
    /\ result = None
    /\ data' = convert_urls_to_absolute(data, keys)
    /\ result' = data'
    /\ UNCHANGED <<keys, again, source, pc, pos, searchVars, editVars, addVars, titleArg, api, calls>>

NextUrls == ConvertUrls

SpecUrls == InitUrls /\ [][NextUrls]_vars

-----------------------------------------------------------------------------
(* The rewriter: the claims *)

\* a place inside a value: the steps from the value to it, a step being a
\* key of a dict (idx = 0) or an index of a list (idx > 0)
KeyStep(k) == [key |-> k, idx |-> 0]
IdxStep(i) == [key |-> "", idx |-> i]

RECURSIVE Places(_)
Places(x) ==
    IF IsDict(x)
    THEN UNION {{<<KeyStep(k)>>} \cup {<<KeyStep(k)>> \o q : q \in Places(x.v[k])}
                : k \in DOMAIN x.v}
    ELSE IF IsList(x)
    THEN UNION {{<<IdxStep(i)>>} \cup {<<IdxStep(i)>> \o q : q \in Places(x.v[i])}
                : i \in 1..Len(x.v)}
    ELSE {}

RECURSIVE At(_, _)
At(x, q) ==
    IF q = <<>> THEN x
    ELSE IF Head(q).idx = 0 THEN At(x.v[Head(q).key], Tail(q))
    ELSE At(x.v[Head(q).idx], Tail(q))

\* key-path p leads to place q: a literal segment names a dict key, the
\* wildcard stands for any dict key or list index
LeadsTo(p, q) ==
    /\ Len(p) = Len(q)
    /\ \A i \in 1..Len(p) : p[i] = "*" \/ (q[i].idx = 0 /\ p[i] = q[i].key)

\* the number of key-paths of the list ks that lead to place q
Hits(ks, q) == Cardinality({i \in 1..Len(ks) : LeadsTo(ks[i], q)})

\* C3: a string leaf v reached by a path becomes base + v when v starts
\* with '/', base + '/' + v when v is any other non-empty string, and stays
\* empty when it is empty.
C3_RewriteRule ==
    result # None =>
        \A q \in Places(source) :
            LET v == At(source, q) IN
            (IsStr(v) /\ Hits(keys, q) = 1) =>
                /\ q \in Places(result)
                /\ At(result, q) =
                     IF v.v = <<>> THEN Str(<<>>)
                     ELSE IF v.v[1] = "/" THEN Str(api_url \o v.v)
                     ELSE Str(api_url \o <<"/">> \o v.v)

\* one call that reached a leaf "/a", a leaf "b" and an empty leaf
C3_Witness ==
    /\ result # None
    /\ source # None
    /\ \E q1, q2, q3 \in Places(source) :
        /\ Hits(keys, q1) = 1 /\ At(source, q1) = Str(<<"/", "a">>)
        /\ Hits(keys, q2) = 1 /\ At(source, q2) = Str(<<"b">>)
        /\ Hits(keys, q3) = 1 /\ At(source, q3) = Str(<<>>)
        /\ At(result, q1) = Str(<<"h", ":", "/", "a">>)
        /\ At(result, q2) = Str(<<"h", ":", "/", "b">>)

-----------------------------------------------------------------------------
(* radarr_status, filters.py:79-85 *)

\* a call that raised: the exception, by its class or by its message
Raised(e) == [t |-> "raise", v |-> e]

\* dict.get(key, default)
Get(d, k, default) == IF k \in DOMAIN d THEN d[k] ELSE default

\* pydantic's validation of an Optional[bool] field (types.py:139, 144, 145):
\* None and booleans pass, 0, 1 and the strings pydantic reads as booleans
\* are coerced, anything else is a validation error
BoolField(x) ==
    IF x.t \in {"null", "bool"} THEN x
    ELSE IF x.t = "num" /\ x.v \in {0, 1} THEN Bool(x.v = 1)
    ELSE IF x = Str(<<"y", "e", "s">>) THEN Bool(TRUE)
    ELSE Raised("ValidationError")

\* RadarrStatus.model_validate(status), types.py:135-145
RadarrStatus(status) ==
    LET fields == [k \in DOMAIN status |-> BoolField(status[k])] IN
    IF \E k \in DOMAIN fields : fields[k].t = "raise"
    THEN Raised("ValidationError")
    ELSE Dict(fields)

\* a status that takes a null 'id' or 'movieFile' for an absent one
radarr_status_truthy(movie) ==
    RadarrStatus([tracked |-> Bool(~Falsy(Get(movie.v, "id", Null))),
                  monitored |-> Get(movie.v, "monitored", Bool(FALSE)),
                  downloaded |-> Bool(~Falsy(Get(movie.v, "movieFile", Null)))])

radarr_status(movie) ==
    RadarrStatus([tracked |-> Bool("id" \in DOMAIN movie.v),
                  monitored |-> Get(movie.v, "monitored", Bool(FALSE)),
                  downloaded |-> Bool("movieFile" \in DOMAIN movie.v)])

(* The inputs of the status derivation *)

StatusMovies ==
    {Dict(f) : f \in {g \in Maps({"id", "monitored", "movieFile"},
                                  {Num(1), Num(2), Null, Bool(TRUE), Bool(FALSE),
                                   Str(<<"y", "e", "s">>), Str(<<"x">>),
                                   Dict([size |-> Num(1)])}) :
        /\ "id" \in DOMAIN g => g["id"] \in {Num(1), Null}
        /\ "monitored" \in DOMAIN g => ~IsDict(g["monitored"])
        /\ "movieFile" \in DOMAIN g => g["movieFile"] \in {Dict([size |-> Num(1)]), Null}}}

InitStatus ==
    /\ data \in StatusMovies
    /\ keys = <<>>
    /\ source = None
    /\ result = None
    /\ again = None
    /\ pc = "call"
    /\ pos = 0
    /\ IdleSearch
    /\ IdleEdit
    /\ IdleAdd
    /\ IdleInfo
    /\ IdleCalls

DeriveStatus ==
    /\ result = None
    /\ result' = radarr_status(data)
    /\ UNCHANGED <<data, keys, again, source, pc, pos, searchVars, editVars, addVars, titleArg, api, calls>>

NextStatus == DeriveStatus

SpecStatus == InitStatus /\ [][NextStatus]_vars

\* C4: for a source whose 'monitored' is absent or a boolean flag,
\* radarr_status returns tracked = ('id' is a key of source), monitored =
\* (the flag, or false when absent), downloaded = ('movieFile' is a key).
C4_StatusFields ==
    (result # None
        /\ ("monitored" \in DOMAIN data.v => data.v["monitored"].t = "bool")) =>
        result = Dict([tracked |-> Bool("id" \in DOMAIN data.v),
                       monitored |-> IF "monitored" \in DOMAIN data.v
                                     THEN data.v["monitored"] ELSE Bool(FALSE),
                       downloaded |-> Bool("movieFile" \in DOMAIN data.v)])

\* the spec's scenario: {id: 1, monitored: true}
C4_Witness ==
    /\ data = Dict([id |-> Num(1), monitored |-> Bool(TRUE)])
    /\ result = Dict([tracked |-> Bool(TRUE), monitored |-> Bool(TRUE),
                      downloaded |-> Bool(FALSE)])

-----------------------------------------------------------------------------
(* filter_movie_minimal, filters.py:72-77 *)

\* list(dict.fromkeys(l)): the first occurrence of each element, in order
RECURSIVE Dedupe(_, _)
Dedupe(l, seen) ==
    IF l = <<>> THEN <<>>
    ELSE IF Head(l) \in seen THEN Dedupe(Tail(l), seen)
         ELSE <<Head(l)>> \o Dedupe(Tail(l), seen \cup {Head(l)})

MinimalKeys == <<<<"id">>, <<"title">>, <<"year">>, <<"tmdbId">>>>

\* MovieMinimal.model_validate (types.py:188-194): the four declared fields,
\* None when the mapping lacks them, and every other key kept (extra="allow")
MovieMinimal(filtered) ==
    Dict([k \in {"id", "title", "year", "tmdbId"} \cup DOMAIN filtered.v |->
            Get(filtered.v, k, Null)])

\* a projection in which includeFields replaces the minimal fields
filter_movie_minimal_replace(movie, include) ==
    MovieMinimal(filter_keys(movie, IF Falsy(include) THEN MinimalKeys ELSE include.v))

filter_movie_minimal(movie, include) ==
    LET ks == IF Falsy(include) THEN MinimalKeys
              ELSE Dedupe(MinimalKeys \o include.v, {})
    IN  MovieMinimal(filter_keys(movie, ks))

-----------------------------------------------------------------------------
(* search_for_movie, server.py:321-394 *)

\* str.lower() on the letters the model's strings are made of
LowerChar(c) ==
    CASE c = "A" -> "a" [] c = "R" -> "r" [] c = "G" -> "g" [] OTHER -> c
Lower(s) == [j \in 1..Len(s) |-> LowerChar(s[j])]

\* needle in haystack, on strings
IsSubstr(n, h) == \E k \in 0..(Len(h) - Len(n)) : SubSeq(h, k + 1, k + Len(n)) = n

\* int(x): the integer, or the exception's class
IntOf(x) ==
    IF x.t = "num" THEN x
    ELSE IF x.t = "bool" THEN Num(IF x.v THEN 1 ELSE 0)
    ELSE IF x = Str(<<"1">>) THEN Num(1)
    ELSE IF x.t = "str" THEN Raised("ValueError")
    ELSE Raised("TypeError")

\* The outcome of one criterion on movie m, c being the criterion's value:
\* "pass" (match stays True), "fail" (match = False) or the class of the
\* exception the comparison raises.

\* lines 342-344
CheckName(m, c) ==
    LET title == Get(m.v, "title", Str(<<>>)) IN
    IF ~IsStr(c) \/ ~IsStr(title) THEN "AttributeError"
    ELSE IF IsSubstr(Lower(c.v), Lower(title.v)) THEN "pass" ELSE "fail"

\* lines 346-348
CheckQuality(m, c) ==
    LET a == IntOf(Get(m.v, "qualityProfileId", Null))
        b == IntOf(c)
    IN  IF a.t = "raise" THEN a.v
        ELSE IF b.t = "raise" THEN b.v
        ELSE IF a.v # b.v THEN "fail" ELSE "pass"

\* lines 350-354
CheckGenres(m, c) ==
    LET g == Get(m.v, "genres", List(<<>>)) IN
    IF ~IsList(g) \/ ~IsList(c) THEN "TypeError"
    ELSE IF \E j \in 1..Len(g.v) : ~IsStr(g.v[j]) THEN "AttributeError"
    ELSE IF \E j \in 1..Len(c.v) : ~IsStr(c.v[j]) THEN "AttributeError"
    ELSE IF {Lower(g.v[j].v) : j \in 1..Len(g.v)}
                \cap {Lower(c.v[j].v) : j \in 1..Len(c.v)} = {}
         THEN "fail" ELSE "pass"

\* lines 356-358 and 378-380: certification and status
CheckLowerEqual(m, field, c) ==
    LET x == Get(m.v, field, Str(<<>>)) IN
    IF ~IsStr(x) \/ ~IsStr(c) THEN "AttributeError"
    ELSE IF Lower(x.v) # Lower(c.v) THEN "fail" ELSE "pass"

\* a test of the year whose bounds gt and lt are inclusive
CheckYearInclusive(m, c) ==
    LET movie_year == Get(m.v, "year", Null) IN
    IF IsDict(c)
    THEN IF \/ "eq" \in DOMAIN c.v /\ movie_year # c.v["eq"]
            \/ "gt" \in DOMAIN c.v
                 /\ (movie_year = Null \/ movie_year.v < c.v["gt"].v)
            \/ "lt" \in DOMAIN c.v
                 /\ (movie_year = Null \/ movie_year.v > c.v["lt"].v)
         THEN "fail" ELSE "pass"
    ELSE IF movie_year # c THEN "fail" ELSE "pass"

\* lines 360-372; the three bounds are all looked at, none ends the test
CheckYear(m, c) ==
    LET movie_year == Get(m.v, "year", Null) IN
    IF IsDict(c)
    THEN IF movie_year.t \notin {"num", "null"}
            /\ ({"gt", "lt"} \cap DOMAIN c.v) # {}
         THEN "TypeError"
         ELSE IF \/ "eq" \in DOMAIN c.v /\ movie_year # c.v["eq"]
                 \/ "gt" \in DOMAIN c.v
                      /\ (movie_year = Null \/ movie_year.v <= c.v["gt"].v)
                 \/ "lt" \in DOMAIN c.v
                      /\ (movie_year = Null \/ movie_year.v >= c.v["lt"].v)
              THEN "fail" ELSE "pass"
    ELSE IF movie_year # c THEN "fail" ELSE "pass"

\* lines 374-376
CheckMonitored(m, c) ==
    IF Get(m.v, "monitored", Null) # c THEN "fail" ELSE "pass"

\* lines 382-391
CheckSize(m, c) ==
    LET movieFile == Get(m.v, "movieFile", Dict(EmptyMap)) IN
    IF ~IsDict(movieFile) THEN "AttributeError"
    ELSE LET size == Get(movieFile.v, "size", Null) IN
         IF size = Null THEN "fail"
         ELSE IF ~IsDict(c) THEN "TypeError"
         ELSE IF size.t # "num" /\ ({"gt", "lt"} \cap DOMAIN c.v) # {}
         THEN "TypeError"
         ELSE IF \/ "gt" \in DOMAIN c.v /\ size.v <= c.v["gt"].v
                 \/ "lt" \in DOMAIN c.v /\ size.v >= c.v["lt"].v
              THEN "fail" ELSE "pass"

Check(k, m, c) ==
    CASE k = "name" -> CheckName(m, c)
      [] k = "qualityProfileId" -> CheckQuality(m, c)
      [] k = "genres" -> CheckGenres(m, c)
      [] k = "certification" -> CheckLowerEqual(m, "certification", c)
      [] k = "year" -> CheckYear(m, c)
      [] k = "monitored" -> CheckMonitored(m, c)
      [] k = "status" -> CheckLowerEqual(m, "status", c)
      [] k = "movieFile.size" -> CheckSize(m, c)

\* the criteria the loop body looks for, in the order of its if statements
CodeOrder == <<"name", "qualityProfileId", "genres", "certification", "year",
               "monitored", "status", "movieFile.size">>

\* The criteria of `order` that crit supplies, one after the other: the first
\* that fails ends the evaluation (`if match and ...` skips the rest), one
\* that raises ends the call.
RECURSIVE EvalInOrder(_, _, _)
EvalInOrder(m, crit, order) ==
    IF order = <<>> THEN "pass"
    ELSE IF Head(order) \notin DOMAIN crit THEN EvalInOrder(m, crit, Tail(order))
    ELSE LET o == Check(Head(order), m, crit[Head(order)]) IN
         IF o = "pass" THEN EvalInOrder(m, crit, Tail(order)) ELSE o

\* a loop body that takes a criterion it does not know for a failed one
MovieMatchesStrict(m, crit) ==
    IF \E k \in DOMAIN crit.v : \A j \in 1..Len(CodeOrder) : CodeOrder[j] # k
    THEN "fail"
    ELSE EvalInOrder(m, crit.v, CodeOrder)

\* lines 340-391: the loop body up to `if match:`
MovieMatches(m, crit) == EvalInOrder(m, crit.v, CodeOrder)

(* The inputs of the search *)

MaxCriteria == 2    \* the most criteria one call supplies
MaxMovies == 1      \* the longest list the remote returns

Full ==
    Dict([id |-> Num(1), tmdbId |-> Num(11), title |-> Str(<<"A", "b">>),
          year |-> Num(1999), qualityProfileId |-> Num(1),
          genres |-> List(<<Str(<<"A", "c">>)>>), certification |-> Str(<<"R">>),
          monitored |-> Bool(TRUE), status |-> Str(<<"r", "e", "l">>),
          movieFile |-> Dict([size |-> Num(5)])])
Other ==
    Dict([id |-> Num(2), tmdbId |-> Num(22), title |-> Str(<<"b">>),
          year |-> Num(2005), qualityProfileId |-> Num(2),
          genres |-> List(<<Str(<<"d", "r">>)>>), certification |-> Str(<<"G">>),
          monitored |-> Bool(FALSE), status |-> Str(<<"a", "n", "n">>),
          movieFile |-> Dict([size |-> Num(9)])])
Without(m, k) == Dict([x \in (DOMAIN m.v) \ {k} |-> m.v[x]])

\* a movie with every field, another with other values, the first without
\* one of its fields, and the first with an empty or a null movieFile
MovieUniverse ==
    {Full, Other} \cup {Without(Full, k) : k \in DOMAIN Full.v}
        \cup {Dict(Put(Full.v, "movieFile", Dict(EmptyMap))),
              Dict(Put(Full.v, "movieFile", Null))}
FetchedLists == Lists(MovieUniverse, MaxMovies)

CritValues(k) ==
    CASE k = "name" -> {Str(<<"a">>), Str(<<"z">>)}
      [] k = "qualityProfileId" -> {Num(1), Str(<<"1">>)}
      [] k = "genres" -> {List(<<Str(<<"a", "c">>)>>), List(<<Str(<<"z", "z">>)>>)}
      [] k = "certification" -> {Str(<<"r">>), Str(<<"G">>)}
      [] k = "year" -> {Num(1999), Dict([gt |-> Num(1990), lt |-> Num(2000)])}
      [] k = "monitored" -> {Bool(TRUE), Bool(FALSE)}
      [] k = "status" -> {Str(<<"R", "e", "l">>), Str(<<"a", "n", "n">>)}
      [] k = "movieFile.size" -> {Dict([gt |-> Num(1)]), Dict([lt |-> Num(5)])}
      [] k = "bogus" -> {Num(1)}

Recognized == {CodeOrder[j] : j \in 1..Len(CodeOrder)}
CritKeys == Recognized \cup {"bogus"}

CriteriaSet ==
    {Dict(f) : f \in UNION {
        {g \in [S -> UNION {CritValues(k) : k \in S}] :
            \A k \in S : g[k] \in CritValues(k)} :
        S \in {T \in SUBSET CritKeys : Cardinality(T) <= MaxCriteria}}}

\* includeFields: None (the default) or a list of key-paths
IncludeLists == {Null, List(<<<<"genres">>, <<"id">>>>)}

InitSearch ==
    /\ criteria \in CriteriaSet
    /\ includeFields \in IncludeLists
    /\ movies = None
    /\ pos = 0
    /\ results = <<>>
    /\ result = None
    /\ pc = "fetch"
    /\ IdleFilter
    /\ IdleEdit
    /\ IdleAdd
    /\ IdleInfo
    /\ IdleCalls

\* line 337: the remote answers with a list of movies, or api.request raises
SearchFetch ==
    /\ pc = "fetch"
    /\ \/ \E ms \in FetchedLists :
            /\ movies' = List(ms)
            /\ pos' = 1
            /\ pc' = "loop"
            /\ UNCHANGED result
       \/ /\ result' = Raised("RadarrError")
          /\ pc' = "done"
          /\ UNCHANGED <<movies, pos>>
    /\ UNCHANGED <<filterVars, criteria, includeFields, results, editVars, addVars, titleArg, api, calls>>

\* lines 339-393: one pass of the loop
SearchLoop ==
    /\ pc = "loop"
    /\ pos <= Len(movies.v)
    /\ LET m == movies.v[pos]
           o == MovieMatches(m, criteria)
       IN  IF o = "pass"
           THEN /\ results' = Append(results, filter_movie_minimal(m, includeFields))
                /\ pos' = pos + 1
                /\ UNCHANGED <<pc, result>>
           ELSE IF o = "fail"
           THEN /\ pos' = pos + 1
                /\ UNCHANGED <<pc, result, results>>
           ELSE /\ result' = Raised(o)
                /\ pc' = "done"
                /\ UNCHANGED <<pos, results>>
    /\ UNCHANGED <<filterVars, criteria, includeFields, movies, editVars, addVars, titleArg, api, calls>>

\* line 394
SearchReturn ==
    /\ pc = "loop"
    /\ pos > Len(movies.v)
    /\ result' = List(results)
    /\ pc' = "done"
    /\ UNCHANGED <<filterVars, searchVars, pos, editVars, addVars, titleArg, api, calls>>

NextSearch == SearchFetch \/ SearchLoop \/ SearchReturn

SpecSearch == InitSearch /\ [][NextSearch]_vars

-----------------------------------------------------------------------------
(* The search: the claims *)

\* the orders in which the keys of S can be taken
Orders(S) ==
    {o \in [1..Cardinality(S) -> S] : \A a, b \in 1..Cardinality(S) : a # b => o[a] # o[b]}

\* what the call returns over the list ms when each movie's criteria are
\* evaluated in `order`, stopping at the first that fails
RECURSIVE RunSearch(_, _, _, _, _)
RunSearch(ms, crit, include, order, acc) ==
    IF ms = <<>> THEN List(acc)
    ELSE LET o == EvalInOrder(Head(ms), crit, order) IN
         IF o = "pass"
         THEN RunSearch(Tail(ms), crit, include, order,
                        Append(acc, filter_movie_minimal(Head(ms), include)))
         ELSE IF o = "fail" THEN RunSearch(Tail(ms), crit, include, order, acc)
         ELSE Raised(o)

\* the movies of ms on which every supplied criterion succeeds, projected
RECURSIVE AllSucceed(_, _, _)
AllSucceed(ms, crit, include) ==
    IF ms = <<>> THEN <<>>
    ELSE (IF \A k \in (DOMAIN crit) \cap Recognized : Check(k, Head(ms), crit[k]) = "pass"
          THEN <<filter_movie_minimal(Head(ms), include)>> ELSE <<>>)
         \o AllSucceed(Tail(ms), crit, include)

\* C5, first half: when the call returns, it returns the movies on which
\* every supplied criterion succeeds.
C5_IncludedIffAll ==
    (pc = "done" /\ result.t = "list") =>
        result.v = AllSucceed(movies.v, criteria.v, includeFields)

\* C5: a movie is included iff every supplied criterion succeeds, and the
\* outcome of the call, a failure included, is the same in whatever order the
\* supplied criteria are evaluated.
C5_OrderIndependent ==
    (pc = "done" /\ movies # None) =>
        /\ result.t = "list" =>
             result.v = AllSucceed(movies.v, criteria.v, includeFields)
        /\ \A order \in Orders((DOMAIN criteria.v) \cap Recognized) :
             result = RunSearch(movies.v, criteria.v, includeFields, order, <<>>)

-----------------------------------------------------------------------------
(* RadarrAPI.request and the remote, server.py:31-49 *)

\* what the remote answers a request with: a status and a decoded body
Answer(status, body) == [status |-> status, body |-> body]

\* RadarrError(errors, status), types.py:5-9
RadarrError(errors, status) ==
    [t |-> "RadarrError", v |-> [errors |-> errors, status |-> status]]

\* a request that takes the status 400 for a success
api_request_above(ans) ==
    IF ans.status > 400 THEN RadarrError(ans.body, ans.status) ELSE ans.body

\* lines 46-49: the body, or RadarrError raised
api_request(ans) ==
    IF ans.status >= 400 THEN RadarrError(ans.body, ans.status) ELSE ans.body

\* the remote: the movies and the tags it has
ExistingMovies == {1}
ExistingTags == {1}
NotFoundBody == Dict([message |-> Str(<<"NotFound">>)])

\* GET movie/{id} and GET tag/{id}: the entity, or for an id the remote does
\* not have, a 404 or an empty body
AnswersToGet(existing, id) ==
    IF id \in existing THEN {Answer(200, Dict([id |-> Num(id)]))}
    ELSE {Answer(404, NotFoundBody), Answer(200, Dict(EmptyMap))}

\* GET qualityprofile: the remote has no profile, or the profile 1, or fails
ServerErrorBody == Dict([message |-> Str(<<"Error">>)])
ProfileItem == Dict([allowed |-> Bool(TRUE), quality |-> Dict([name |-> Str(<<"HD">>)])])
AnswersToProfiles ==
    {Answer(200, List(<<>>)),
     Answer(200, List(<<Dict([id |-> Num(1), name |-> Str(<<"p">>),
                              items |-> List(<<ProfileItem>>)])>>)),
     Answer(500, ServerErrorBody)}

\* PUT movie/editor: the remote accepts the edit and answers with the movies
\* it changed, or fails
AnswersToPut(e) == {Answer(202, e.v["movieIds"]), Answer(500, ServerErrorBody)}

\* one request as the remote saw it
Request(method, endpoint, ans) ==
    [method |-> method, endpoint |-> endpoint, status |-> ans.status, body |-> ans.body]

-----------------------------------------------------------------------------
(* get_quality_profiles, server.py:171-199 *)

\* a QualityProfile object (types.py:196-199): a pydantic model, not a dict
QualityProfile(id, name, allowed_qualities) ==
    [t |-> "QualityProfile",
     v |-> [id |-> id, name |-> name, allowed_qualities |-> allowed_qualities]]

\* line 193
RECURSIVE AllowedQualities(_)
AllowedQualities(items) ==
    IF items = <<>> THEN <<>>
    ELSE LET item == Head(items) IN
         (IF ~Falsy(Get(item.v, "allowed", Null)) /\ "quality" \in DOMAIN item.v
              /\ "name" \in DOMAIN item.v["quality"].v
          THEN <<item.v["quality"].v["name"]>> ELSE <<>>)
         \o AllowedQualities(Tail(items))

\* lines 191-199, on the decoded answer
get_quality_profiles(profiles) ==
    [j \in 1..Len(profiles.v) |->
        QualityProfile(Get(profiles.v[j].v, "id", Null),
                       Get(profiles.v[j].v, "name", Null),
                       List(AllowedQualities(Get(profiles.v[j].v, "items", List(<<>>)).v)))]

-----------------------------------------------------------------------------
(* edit_movie, server.py:263-319 *)

\* ToolResponse(isError, content), server.py:19-21
ToolResponse(isError, content) ==
    [t |-> "ToolResponse", v |-> [isError |-> isError, content |-> content]]

\* x[k] in Python: the value, or the exception raised, with its message
Subscript(x, k) ==
    IF IsDict(x) /\ k \in DOMAIN x.v THEN x.v[k]
    ELSE IF IsDict(x) THEN Raised("'" \o k \o "'")
    ELSE Raised("'" \o x.t \o "' object is not subscriptable")

\* line 280
allowed_fields == {"movieIds", "monitored", "qualityProfileId", "minimumAvailability",
                   "tags", "applyTags"}

\* a validation that has no allow-list
ValidateNoAllowList(e) ==
    IF "movieIds" \notin DOMAIN e.v
    THEN Str(<<"Missing required field: movieIds">>)
    ELSE IF ~IsList(e.v["movieIds"])
    THEN Str(<<"movieIds must be a list of movie IDs">>)
    ELSE None

\* lines 281-288: the content of the error response, None when edits passes
Validate(e) ==
    IF \E field \in DOMAIN e.v : field \notin allowed_fields
    THEN Str(<<"Invalid field: ",
               CHOOSE field \in DOMAIN e.v : field \notin allowed_fields>>)
    ELSE IF "movieIds" \notin DOMAIN e.v
    THEN Str(<<"Missing required field: movieIds">>)
    ELSE IF ~IsList(e.v["movieIds"])
    THEN Str(<<"movieIds must be a list of movie IDs">>)
    ELSE None

\* an existence check that takes every answer for an entity
NotFoundNever(r) == FALSE

\* lines 291 and 299: `if not movie`, `if not tag`
NotFound(r) == Falsy(r)

\* lines 316-317
RadarrErrorResponse(e) ==
    ToolResponse(TRUE,
        Dict([error |-> Str(<<"Radarr API error ", ToString(e.v.status), ": ",
                              ToString(e.v.errors)>>),
              details |-> e.v.errors]))

\* lines 318-319, msg being str(e)
ExceptionResponse(msg) == ToolResponse(TRUE, Dict([error |-> Str(<<msg>>)]))

(* The inputs of edit_movie *)

MaxIds == 2     \* the longest movieIds and tags list

IdLists == {List(l) : l \in Lists({Num(1), Num(2)}, MaxIds)}

EditValues(k) ==
    CASE k = "movieIds" -> IdLists \cup {Num(1)}
      [] k = "tags" -> IdLists \cup {Num(1)}
      [] k = "monitored" -> {Bool(TRUE)}
      [] k = "qualityProfileId" -> {Num(1), Num(9)}
      [] k = "minimumAvailability" -> {Str(<<"released">>)}
      [] k = "applyTags" -> {Str(<<"add">>), Str(<<"merge">>)}
      [] k = "bogus" -> {Num(1)}

EditKeys == <<"movieIds", "monitored", "qualityProfileId", "minimumAvailability",
              "tags", "applyTags", "bogus">>

\* the payloads over the first n keys of EditKeys: a key is absent or
\* carries one of its values
RECURSIVE EditMaps(_)
EditMaps(n) ==
    IF n = 0 THEN {EmptyMap}
    ELSE LET less == EditMaps(n - 1) IN
         less \cup {Put(f, EditKeys[n], x) : f \in less, x \in EditValues(EditKeys[n])}

EditsSet == {Dict(f) : f \in EditMaps(Len(EditKeys))}

InitEdit ==
    /\ edits \in EditsSet
    /\ requests = <<>>
    /\ result = None
    /\ pc = "validate"
    /\ pos = 0
    /\ IdleFilter
    /\ IdleSearch
    /\ IdleAdd
    /\ IdleInfo
    /\ IdleCalls

EditFrame == UNCHANGED <<filterVars, searchVars, edits, addVars, titleArg, api, calls>>

\* lines 279-288
EditValidate ==
    /\ pc = "validate"
    /\ IF Validate(edits) # None
       THEN /\ result' = ToolResponse(TRUE, Validate(edits))
            /\ pc' = "done"
            /\ UNCHANGED pos
       ELSE /\ pc' = "movies"
            /\ pos' = 1
            /\ UNCHANGED result
    /\ UNCHANGED requests
    /\ EditFrame

\* One existence check of a loop, lines 290-292 and 298-300: the request,
\* and the response returned when the entity is missing or the request fails.
CheckExists(kind, label, existing, id) ==
    \E ans \in AnswersToGet(existing, id.v) :
        /\ requests' = Append(requests, Request("GET", <<kind, ToString(id.v)>>, ans))
        /\ LET r == api_request(ans) IN
           IF r.t = "RadarrError"
           THEN /\ result' = RadarrErrorResponse(r)
                /\ pc' = "done"
                /\ UNCHANGED pos
           ELSE IF NotFound(r)
           THEN /\ result' = ToolResponse(TRUE,
                                Str(<<label, ToString(id.v), " not found.">>))
                /\ pc' = "done"
                /\ UNCHANGED pos
           ELSE /\ pos' = pos + 1
                /\ UNCHANGED <<pc, result>>

\* lines 289-292: one pass of the loop over movieIds
EditCheckMovie ==
    /\ pc = "movies"
    /\ pos <= Len(edits.v["movieIds"].v)
    /\ CheckExists("movie/", "Movie with ID ", ExistingMovies, edits.v["movieIds"].v[pos])
    /\ EditFrame

\* lines 295-297: after the loop over movieIds, up to the loop over tags
EditTagsGuard ==
    /\ pc = "movies"
    /\ pos > Len(edits.v["movieIds"].v)
    /\ IF "tags" \in DOMAIN edits.v /\ ~IsList(edits.v["tags"])
       THEN /\ result' = ToolResponse(TRUE, Str(<<"tags must be a list of tag IDs">>))
            /\ pc' = "done"
            /\ UNCHANGED pos
       ELSE IF Subscript(edits, "tags").t = "raise"
       THEN /\ result' = ExceptionResponse(Subscript(edits, "tags").v)
            /\ pc' = "done"
            /\ UNCHANGED pos
       ELSE /\ pc' = "tags"
            /\ pos' = 1
            /\ UNCHANGED result
    /\ UNCHANGED requests
    /\ EditFrame

\* lines 297-300: one pass of the loop over tags
EditCheckTag ==
    /\ pc = "tags"
    /\ pos <= Len(edits.v["tags"].v)
    /\ CheckExists("tag/", "Tag with ID ", ExistingTags, edits.v["tags"].v[pos])
    /\ EditFrame

\* lines 303-307: after the loop over tags, up to the next request
EditApplyGuard ==
    /\ pc = "tags"
    /\ pos > Len(edits.v["tags"].v)
    /\ IF "applyTags" \in DOMAIN edits.v
            /\ edits.v["applyTags"] \notin {Str(<<"replace">>), Str(<<"add">>), Str(<<"remove">>)}
       THEN /\ result' = ToolResponse(TRUE,
                            Str(<<"applyTags must be 'replace', 'add', or 'remove'">>))
            /\ pc' = "done"
       ELSE /\ pc' = IF "qualityProfileId" \in DOMAIN edits.v THEN "profiles" ELSE "put"
            /\ UNCHANGED result
    /\ UNCHANGED <<pos, requests>>
    /\ EditFrame

\* the ids of the profiles, line 311: the list, or the exception p["id"] raises
ProfileIds(profiles) ==
    IF \E j \in 1..Len(profiles) : Subscript(profiles[j], "id").t = "raise"
    THEN Subscript(profiles[CHOOSE j \in 1..Len(profiles) :
                                Subscript(profiles[j], "id").t = "raise"], "id")
    ELSE List([j \in 1..Len(profiles) |-> Subscript(profiles[j], "id")])

\* lines 308-313: get_quality_profiles and the test of qualityProfileId
EditGetProfiles ==
    /\ pc = "profiles"
    /\ \E ans \in AnswersToProfiles :
        /\ requests' = Append(requests, Request("GET", <<"qualityprofile">>, ans))
        /\ LET r == api_request(ans)
               profiles == get_quality_profiles(r)
               profileIds == ProfileIds(profiles)
           IN
           IF r.t = "RadarrError"
           THEN /\ result' = RadarrErrorResponse(r)
                /\ pc' = "done"
           ELSE IF profiles = <<>>
           THEN /\ result' = ToolResponse(TRUE, Str(<<"No quality profiles found.">>))
                /\ pc' = "done"
           ELSE IF profileIds.t = "raise"
           THEN /\ result' = ExceptionResponse(profileIds.v)
                /\ pc' = "done"
           ELSE IF \A j \in 1..Len(profileIds.v) :
                        profileIds.v[j] # edits.v["qualityProfileId"]
           THEN /\ result' = ToolResponse(TRUE,
                                Str(<<"Invalid quality profile ID: ",
                                      ToString(edits.v["qualityProfileId"].v)>>))
                /\ pc' = "done"
           ELSE /\ pc' = "put"
                /\ UNCHANGED result
    /\ UNCHANGED pos
    /\ EditFrame

\* lines 314-317
EditPut ==
    /\ pc = "put"
    /\ \E ans \in AnswersToPut(edits) :
        /\ requests' = Append(requests, Request("PUT", <<"movie/editor">>, ans))
        /\ LET r == api_request(ans) IN
           result' = IF r.t = "RadarrError" THEN RadarrErrorResponse(r)
                     ELSE ToolResponse(FALSE, r)
    /\ pc' = "done"
    /\ UNCHANGED pos
    /\ EditFrame

NextEdit ==
    \/ EditValidate
    \/ EditCheckMovie
    \/ EditTagsGuard
    \/ EditCheckTag
    \/ EditApplyGuard
    \/ EditGetProfiles
    \/ EditPut

SpecEdit == InitEdit /\ [][NextEdit]_vars

-----------------------------------------------------------------------------
(* Claims about edit_movie *)

Finished == pc = "done"
Payload(k) == edits.v[k]
Has(k) == k \in DOMAIN edits.v
IsGet(q, kind) == q.method = "GET" /\ Len(q.endpoint) = 2 /\ q.endpoint[1] = kind
IsPut(q) == q.method = "PUT" /\ q.endpoint = <<"movie/editor">>
Puts == {j \in 1..Len(requests) : IsPut(requests[j])}
\* an existence check the remote answered with the entity
Found(q) == q.status < 400 /\ q.body \notin {Null, Dict(EmptyMap), List(<<>>)}
\* request q is an existence check that failed
FailedCheck(q) == (IsGet(q, "movie/") \/ IsGet(q, "tag/")) /\ ~Found(q)
\* before request j, entity id of the kind was looked up and found
CheckedBefore(j, kind, id) ==
    \E k \in 1..(j - 1) :
        /\ IsGet(requests[k], kind)
        /\ requests[k].endpoint[2] = ToString(id.v)
        /\ Found(requests[k])

EditableFields ==
    {"movieIds", "monitored", "qualityProfileId", "minimumAvailability", "tags", "applyTags"}

BadPayload ==
    \/ \E k \in DOMAIN edits.v : k \notin EditableFields
    \/ ~Has("movieIds")
    \/ ~IsList(Payload("movieIds"))

\* C7: a payload with a key outside the editable fields, without movieIds, or
\* with a movieIds that is not a list, is answered with isError = true and
\* no request at all has been sent to the remote.
C7_RejectedBeforeRemote ==
    (edits # None /\ BadPayload) =>
        /\ requests = <<>>
        /\ pc \in {"validate", "done"}
        /\ Finished => result.v.isError = TRUE

\* a payload that is well-formed but for one foreign key has been rejected
C7_Witness ==
    /\ edits # None
    /\ Finished
    /\ Has("bogus")
    /\ Has("movieIds") /\ IsList(Payload("movieIds")) /\ Payload("movieIds").v # <<>>
    /\ result.v.isError = TRUE
    /\ requests = <<>>

ApplyTagsInvalid ==
    Has("applyTags")
        /\ Payload("applyTags") \notin {Str(<<"replace">>), Str(<<"add">>), Str(<<"remove">>)}

\* the qualityProfileId check failed: the request for the profiles failed, or
\* no profile it returned has the id
ProfileCheckFailed ==
    \E k \in 1..Len(requests) :
        /\ requests[k].method = "GET" /\ requests[k].endpoint = <<"qualityprofile">>
        /\ \/ requests[k].status >= 400
           \/ \A j \in 1..Len(requests[k].body.v) :
                Get(requests[k].body.v[j].v, "id", Null) # Payload("qualityProfileId")

\* C8: the PUT to movie/editor is sent at most once, and only after every id
\* of movieIds and every id of tags was looked up and found; when an existence
\* check, the applyTags check or the qualityProfileId check fails, no PUT is
\* sent.
C8_PutOnlyAfterChecks ==
    edits # None =>
        /\ Cardinality(Puts) <= 1
        /\ \A j \in Puts :
            /\ \A m \in 1..Len(Payload("movieIds").v) :
                    CheckedBefore(j, "movie/", Payload("movieIds").v[m])
            /\ Has("tags") =>
                \A m \in 1..Len(Payload("tags").v) :
                    CheckedBefore(j, "tag/", Payload("tags").v[m])
        /\ (\E k \in 1..Len(requests) : FailedCheck(requests[k])) => Puts = {}
        /\ ApplyTagsInvalid => Puts = {}
        /\ ProfileCheckFailed => Puts = {}

\* a PUT has been sent for two movies and a tag
C8_Witness ==
    /\ edits # None
    /\ Puts # {}
    /\ Len(Payload("movieIds").v) = 2
    /\ Len(Payload("tags").v) >= 1
    /\ Has("applyTags")

\* the content of a response names the id
Names(content, id) ==
    \/ IsStr(content) /\ \E j \in 1..Len(content.v) : content.v[j] = id
    \/ IsDict(content) /\ "error" \in DOMAIN content.v
        /\ \E j \in 1..Len(content.v["error"].v) : content.v["error"].v[j] = id

\* C9: at the first movie or tag that the remote does not have (an answer with
\* a status >= 400 or an empty body) no further existence check is sent, and
\* the response has isError = true and a content that names the id.
C9_FailFastNamesId ==
    edits # None =>
        \A k \in 1..Len(requests) :
            FailedCheck(requests[k]) =>
                /\ k = Len(requests)
                /\ Finished
                /\ result.v.isError = TRUE
                /\ Names(result.v.content, requests[k].endpoint[2])

\* the half of C9 that the code keeps: nothing is sent after a failed
\* existence check, and the response is an error
C9_FailFast ==
    edits # None =>
        \A k \in 1..Len(requests) :
            FailedCheck(requests[k]) =>
                /\ k = Len(requests)
                /\ Finished
                /\ result.v.isError = TRUE

AllExist(k, existing) ==
    IsList(Payload(k)) /\ \A m \in 1..Len(Payload(k).v) : Payload(k).v[m].v \in existing

\* a payload of existing movies and valid values of the fields it changes
ValidPayload ==
    /\ ~BadPayload
    /\ AllExist("movieIds", ExistingMovies)
    /\ Has("tags") => AllExist("tags", ExistingTags)
    /\ ~ApplyTagsInvalid
    /\ Has("qualityProfileId") => Payload("qualityProfileId") = Num(1)

\* the remote answered every request, and has the profile 1
RemoteServes ==
    \A k \in 1..Len(requests) :
        /\ requests[k].status < 400
        /\ requests[k].endpoint = <<"qualityprofile">> => requests[k].body.v # <<>>

\* C10: for a payload with a list movieIds of existing movies and any subset
\* of the other fields with valid values, the PUT to movie/editor is sent and
\* the response has isError = false and the remote's answer as its content.
C10_ValidEditIsPut ==
    (edits # None /\ Finished /\ ValidPayload /\ RemoteServes) =>
        /\ Puts # {}
        /\ result.v.isError = FALSE
        /\ result.v.content = requests[Len(requests)].body

\* what the code does with a valid payload: the PUT is sent only when tags
\* is given and qualityProfileId is not
C10_PutNeedsTags ==
    (edits # None /\ Finished /\ ValidPayload /\ RemoteServes) =>
        (Puts # {} <=> (Has("tags") /\ ~Has("qualityProfileId")))

-----------------------------------------------------------------------------
(* add_movie, server.py:201-261 *)

\* a local variable that has not been assigned
Unbound == [t |-> "unbound", v |-> 0]

\* an exception held as a value (content=e, line 261), by its message
ExceptionValue(msg) == [t |-> "exception", v |-> msg]

\* x[0]: the element, or the exception the subscript raises
First(x) ==
    IF IsList(x) /\ x.v # <<>> THEN x.v[1]
    ELSE IF IsList(x) THEN Raised("list index out of range")
    ELSE IF IsDict(x) THEN Raised("0")
    ELSE Raised("'" \o x.t \o "' object is not subscriptable")

\* the bodies of the remote's error responses: a list of error entries
\* (a rejected resource), or a mapping (any other failure)
ErrorEntries == List(<<Dict([errorMessage |-> Str(<<"already been added">>)]),
                       Dict([errorMessage |-> Str(<<"second">>)])>>)

AnswersToRootFolder ==
    {Answer(200, List(<<Dict([path |-> Str(<<"/default">>)])>>)),
     Answer(200, List(<<>>)),
     Answer(400, ErrorEntries),
     Answer(500, ServerErrorBody)}

LookedUp(id) == Dict([tmdbId |-> id, title |-> Str(<<"T">>), year |-> Num(1999)])

AnswersToLookup(id) ==
    {Answer(200, LookedUp(id)),
     Answer(200, Dict(EmptyMap)),
     Answer(400, ErrorEntries),
     Answer(500, ServerErrorBody)}

AnswersToPost(payload) ==
    {Answer(201, payload),
     Answer(200, Dict(EmptyMap)),
     Answer(400, ErrorEntries),
     Answer(500, ServerErrorBody)}

\* a handler that reports the rejection without the movie
add_movie_except_bare(e, m, id) ==
    ToolResponse(TRUE, Dict([tmdbId |-> id, error |-> Str(<<"rejected">>)]))

\* lines 250-259: the response, or the exception the handler itself raises
add_movie_except(e, m, id) ==
    LET error == First(e.v.errors) IN
    IF error.t = "raise" THEN error
    ELSE LET message == Subscript(error, "errorMessage") IN
    IF message.t = "raise" THEN message
    ELSE IF m = Unbound THEN Raised("UnboundLocalError")
    ELSE IF Falsy(m)
    THEN ToolResponse(TRUE, Dict([tmdbId |-> id, error |-> message]))
    ELSE IF Subscript(m, "title").t = "raise" THEN Subscript(m, "title")
    ELSE IF Subscript(m, "year").t = "raise" THEN Subscript(m, "year")
    ELSE ToolResponse(TRUE, Dict([tmdbId |-> id, error |-> message,
                                  title |-> Subscript(m, "title"),
                                  year |-> Subscript(m, "year")]))

\* a payload that names the default folder whatever the caller asked for
AddPayloadDefaultFolder(id, m, path) ==
    Dict([tmdbId |-> id, title |-> m.v["title"], year |-> m.v["year"],
          qualityProfileId |-> Num(1), rootFolderPath |-> Str(<<"/default">>),
          minimumAvailability |-> Str(<<"released">>), monitored |-> Bool(TRUE),
          addOptions |-> Dict([searchForMovie |-> Bool(TRUE)])])

\* lines 236-245
AddPayload(id, m, path) ==
    Dict([tmdbId |-> id, title |-> m.v["title"], year |-> m.v["year"],
          qualityProfileId |-> Num(1), rootFolderPath |-> path,
          minimumAvailability |-> Str(<<"released">>), monitored |-> Bool(TRUE),
          addOptions |-> Dict([searchForMovie |-> Bool(TRUE)])])

\* line 248: the POST, with the payload it carries and the remote's answer
PostRequest(endpoint, payload, ans) ==
    [method |-> "POST", endpoint |-> endpoint, data |-> payload,
     status |-> ans.status, body |-> ans.body]

\* line 235: json.dumps of the not-found message
NotFoundJson(id) ==
    Str(<<"{\"isError\": true, \"content\": \"Movie with tmdbId ", ToString(id.v),
          " not found.\"}">>)

InitAdd ==
    /\ tmdbId \in {Num(7), Num(8), Num(9)}
    /\ rootFolderPath \in {Null, Str(<<>>), Str(<<"/given">>)}
    /\ movieLocal = Unbound
    /\ requests = <<>>
    /\ edits = None
    /\ result = None
    /\ pc = "rootfolder"
    /\ pos = 0
    /\ IdleFilter
    /\ IdleSearch
    /\ IdleInfo
    /\ IdleCalls

AddFrame == UNCHANGED <<filterVars, searchVars, edits, pos, tmdbId, titleArg, api, calls>>

\* lines 230-232
AddRootFolder ==
    /\ pc = "rootfolder"
    /\ \E ans \in AnswersToRootFolder :
        /\ requests' = Append(requests, Request("GET", <<"rootfolder">>, ans))
        /\ LET folders == api_request(ans)
               first == First(folders)
               path == IF first.t = "raise" THEN first ELSE Subscript(first, "path")
           IN
           IF folders.t = "RadarrError"
           THEN /\ result' = add_movie_except(folders, movieLocal, tmdbId)
                /\ pc' = "done"
                /\ UNCHANGED rootFolderPath
           ELSE IF ~Falsy(rootFolderPath)
           THEN /\ pc' = "lookup"
                /\ UNCHANGED <<result, rootFolderPath>>
           ELSE IF path.t = "raise"
           THEN /\ result' = ToolResponse(TRUE, ExceptionValue(path.v))
                /\ pc' = "done"
                /\ UNCHANGED rootFolderPath
           ELSE /\ rootFolderPath' = path
                /\ pc' = "lookup"
                /\ UNCHANGED result
    /\ UNCHANGED movieLocal
    /\ AddFrame

\* lines 234-235
AddLookup ==
    /\ pc = "lookup"
    /\ \E ans \in AnswersToLookup(tmdbId) :
        /\ requests' = Append(requests, Request("GET", <<"movie/lookup/tmdb">>, ans))
        /\ LET r == api_request(ans) IN
           IF r.t = "RadarrError"
           THEN /\ result' = add_movie_except(r, movieLocal, tmdbId)
                /\ pc' = "done"
                /\ UNCHANGED movieLocal
           ELSE IF Falsy(r)
           THEN /\ movieLocal' = r
                /\ result' = NotFoundJson(tmdbId)
                /\ pc' = "done"
           ELSE /\ movieLocal' = r
                /\ pc' = "post"
                /\ UNCHANGED result
    /\ UNCHANGED rootFolderPath
    /\ AddFrame

\* lines 236-249
AddPost ==
    /\ pc = "post"
    /\ LET payload == AddPayload(tmdbId, movieLocal, rootFolderPath) IN
       \E ans \in AnswersToPost(payload) :
        /\ requests' = Append(requests, PostRequest(<<"movie">>, payload, ans))
        /\ LET r == api_request(ans) IN
           result' = IF r.t = "RadarrError"
                     THEN add_movie_except(r, movieLocal, tmdbId)
                     ELSE ToolResponse(FALSE, payload)
    /\ pc' = "done"
    /\ UNCHANGED <<rootFolderPath, movieLocal>>
    /\ AddFrame

NextAdd ==
    \/ AddRootFolder
    \/ AddLookup
    \/ AddPost

SpecAdd == InitAdd /\ [][NextAdd]_vars

-----------------------------------------------------------------------------
(* Claims about add_movie *)

Adding == tmdbId # None
Failed(q) == q.status >= 400
SomeRequestFailed == \E k \in 1..Len(requests) : Failed(requests[k])
LookupEmpty ==
    \E k \in 1..Len(requests) :
        /\ requests[k].endpoint = <<"movie/lookup/tmdb">>
        /\ ~Failed(requests[k])
        /\ Falsy(requests[k].body)

\* C11: add_movie never raises and always returns a ToolResponse, whose
\* isError is true when one of its requests failed or the lookup was empty,
\* and false otherwise.
C11_AlwaysToolResponse ==
    (Adding /\ Finished) =>
        /\ result.t = "ToolResponse"
        /\ result.v.isError = (SomeRequestFailed \/ LookupEmpty)

\* what the code does keep: a call that returns a ToolResponse with
\* isError = false has sent the POST and no request of it failed
C11_SuccessMeansPosted ==
    (Adding /\ Finished /\ result.t = "ToolResponse" /\ result.v.isError = FALSE) =>
        /\ ~SomeRequestFailed /\ ~LookupEmpty
        /\ Len(requests) = 3
        /\ requests[3].method = "POST"

\* the remote rejected the POST with a list of error entries
PostRejected ==
    /\ Len(requests) = 3
    /\ requests[3].method = "POST"
    /\ Failed(requests[3])
    /\ IsList(requests[3].body) /\ requests[3].body.v # <<>>

\* C12: when the lookup succeeded and the remote rejects the POST, the
\* response has isError = true and a content with tmdbId (the id asked for),
\* error (the errorMessage of the first error entry) and the title and year
\* of the movie looked up.
C12_RejectedPost ==
    (Adding /\ Finished /\ PostRejected) =>
        /\ result.t = "ToolResponse"
        /\ result.v.isError = TRUE
        /\ result.v.content =
            Dict([tmdbId |-> tmdbId,
                  error |-> requests[3].body.v[1].v["errorMessage"],
                  title |-> requests[2].body.v["title"],
                  year |-> requests[2].body.v["year"]])

C12_Witness ==
    /\ Adding /\ Finished /\ PostRejected
    /\ result.t = "ToolResponse"
    /\ result.v.content.v["error"] = Str(<<"already been added">>)
    /\ result.v.content.v["tmdbId"] = Num(8)

-----------------------------------------------------------------------------
(* RadarrAPI.request on its own, server.py:31-49 *)

Statuses == {200, 201, 302, 399, 400, 401, 404, 500, 503}
Bodies == {Null, Num(0), Str(<<"ok">>), List(<<>>), Dict(EmptyMap),
           NotFoundBody, ErrorEntries}
Methods == {"GET", "PUT", "POST"}

InitRequest ==
    /\ requests = <<>>
    /\ result = None
    /\ pc = "request"
    /\ pos = 0
    /\ edits = None
    /\ IdleFilter
    /\ IdleSearch
    /\ IdleAdd
    /\ IdleInfo
    /\ IdleCalls

\* one call of request: what the remote answers and what the call gives
DoRequest ==
    /\ pc = "request"
    /\ \E method \in Methods, status \in Statuses, body \in Bodies :
        LET ans == Answer(status, body) IN
        /\ requests' = <<Request(method, <<"movie">>, ans)>>
        /\ result' = api_request(ans)
    /\ pc' = "answered"
    /\ UNCHANGED <<filterVars, searchVars, edits, pos, addVars, titleArg, api, calls>>

NextRequest == DoRequest

SpecRequest == InitRequest /\ [][NextRequest]_vars

\* C13: request raises RadarrError, carrying the status and the decoded body
\* of the response, iff the status is >= 400; for every status below 400 it
\* returns the decoded body.
C13_RaisesFrom400 ==
    pc = "answered" =>
        LET q == requests[1] IN
        /\ result.t = "RadarrError" <=> q.status >= 400
        /\ q.status >= 400 => result = RadarrError(q.body, q.status)
        /\ q.status < 400 => result = q.body

\* the status 400 itself has raised
C13_Witness ==
    /\ pc = "answered"
    /\ requests[1].status = 400
    /\ result.t = "RadarrError"
    /\ result.v.status = 400

-----------------------------------------------------------------------------
(* movie_info, server.py:105-146 *)

\* lines 130-140
InfoKeys ==
    <<<<"title">>, <<"originalTitle">>, <<"year">>, <<"status">>, <<"overview">>,
      <<"inCinemas">>, <<"studio">>, <<"runtime">>, <<"genres">>, <<"imdbId">>,
      <<"tmdbId">>, <<"certification">>, <<"hasFile">>, <<"path">>, <<"monitored">>,
      <<"qualityProfileId">>,
      <<"ratings", "*", "value">>, <<"ratings", "*", "votes">>,
      <<"images", "coverType">>, <<"images", "remoteUrl">>,
      <<"movieFile", "size">>, <<"movieFile", "quality", "name">>,
      <<"movieFile", "languages">>,
      <<"movieFile", "mediaInfo", "audioChannels">>,
      <<"movieFile", "mediaInfo", "audioCodec">>,
      <<"movieFile", "mediaInfo", "videoDynamicRange">>,
      <<"movieFile", "mediaInfo", "subtitles">>>>

\* the fields MovieDetailsFull declares, types.py:150-186
DetailFields ==
    {"id", "title", "originalTitle", "sortTitle", "year", "status", "overview",
     "inCinemas", "physicalRelease", "digitalRelease", "studio", "runtime", "genres",
     "tags", "imdbId", "tmdbId", "titleSlug", "cleanTitle", "certification",
     "hasFile", "path", "folderName", "folder", "monitored", "qualityProfileId",
     "website", "remotePoster", "youTubeTrailerId", "originalLanguage",
     "alternateTitles", "secondaryYearSourceId", "added", "ratings", "images",
     "movieFile", "popularity", "radarr_status"}

\* MovieDetailsFull.model_validate (types.py:147-186): the declared fields,
\* None when the mapping lacks them, and every other key kept (extra="allow")
MovieDetailsFull(filtered) ==
    [t |-> "MovieDetailsFull",
     v |-> [k \in DetailFields \cup DOMAIN filtered.v |-> Get(filtered.v, k, Null)]]

\* a comparison that takes a title containing the argument
TitleMatchesWithin(m, t) ==
    IsSubstr(Lower(t.v), Lower(Get(m.v, "title", Str(<<>>)).v))

\* line 129
TitleMatches(m, t) == Lower(Get(m.v, "title", Str(<<>>)).v) = Lower(t.v)

\* lines 128-146: the loop over the movies fetched
RECURSIVE movie_info_loop(_, _)
movie_info_loop(ms, t) ==
    IF ms = <<>> THEN Null
    ELSE IF TitleMatches(Head(ms), t)
    THEN MovieDetailsFull(filter_keys(Head(ms), InfoKeys))
    ELSE movie_info_loop(Tail(ms), t)

(* The inputs of movie_info *)

MaxInfoMovies == 2      \* the longest list the remote returns

Retitled(m, id, t) == Dict(Put(Put(m.v, "title", Str(t)), "id", Num(id)))

InfoMovies ==
    {Full, Other, Retitled(Full, 3, <<"A", "B">>), Retitled(Other, 4, <<"A", "b", "c">>),
     Without(Full, "title")}

InfoLists == Lists(InfoMovies, MaxInfoMovies)

Titles == {Str(<<"a", "b">>), Str(<<"A", "B">>), Str(<<"b">>), Str(<<"c">>), Str(<<>>)}

InitInfo ==
    /\ titleArg \in Titles
    /\ IdleCalls
    /\ movies = None
    /\ result = None
    /\ pc = "info"
    /\ pos = 0
    /\ criteria = None /\ includeFields = Null /\ results = <<>>
    /\ IdleFilter
    /\ IdleEdit
    /\ IdleAdd

\* the whole call: line 127 fetches, api.request raising ends the call, and
\* lines 128-146 scan what was fetched
InfoCall ==
    /\ pc = "info"
    /\ \/ \E ms \in InfoLists :
            /\ movies' = List(ms)
            /\ result' = movie_info_loop(ms, titleArg)
       \/ /\ result' = Raised("RadarrError")
          /\ UNCHANGED movies
    /\ pc' = "informed"
    /\ UNCHANGED <<filterVars, criteria, includeFields, results, pos, editVars,
                   addVars, titleArg, api, calls>>

NextInfo == InfoCall

SpecInfo == InitInfo /\ [][NextInfo]_vars

(* Claims about movie_info *)

Informed == pc = "informed"
FetchFailed == movies = None
\* the records in the list fetched that have the title asked for
Titled == {j \in 1..Len(movies.v) :
            /\ "title" \in DOMAIN movies.v[j].v
            /\ Lower(movies.v[j].v["title"].v) = Lower(titleArg.v)}
\* the same, a record without a title counting as one with the empty title
TitledOrEmpty ==
    Titled \cup {j \in 1..Len(movies.v) :
                    "title" \notin DOMAIN movies.v[j].v /\ titleArg.v = <<>>}
Least(S) == CHOOSE j \in S : \A k \in S : j <= k
Projection(j) == MovieDetailsFull(filter_keys(movies.v[j], InfoKeys))

\* C14 as stated: movie_info returns the projection of the first record whose
\* title equals the argument ignoring case, returns None exactly when the
\* fetch succeeded and no record has such a title, and a failed fetch is
\* never reported as None.
C14_FirstExactTitle ==
    Informed =>
        /\ FetchFailed => result = Raised("RadarrError")
        /\ ~FetchFailed =>
            /\ Titled = {} <=> result = Null
            /\ Titled # {} => result = Projection(Least(Titled))

\* C14 amended: as stated, with a record that has no title counting as a
\* record whose title is the empty string.
C14_FirstExactTitleOrEmpty ==
    Informed =>
        /\ FetchFailed => result = Raised("RadarrError")
        /\ ~FetchFailed =>
            /\ TitledOrEmpty = {} <=> result = Null
            /\ TitledOrEmpty # {} => result = Projection(Least(TitledOrEmpty))

\* the second of two records is returned: the first has a title that
\* contains the argument, the second the title itself in another case
C14_Witness ==
    /\ Informed /\ ~FetchFailed
    /\ Len(movies.v) = 2
    /\ Titled = {2}
    /\ Get(movies.v[1].v, "title", Null) = Str(<<"A", "b", "c">>)
    /\ result = Projection(2)

-----------------------------------------------------------------------------
(* search_for_movie with includeFields, server.py:392-394 and filters.py:72-77 *)

MaxInclude == 2     \* the longest includeFields list

IncludePaths == {<<"genres">>, <<"id">>, <<"absent">>, <<"movieFile", "size">>}

IncludeListsWide ==
    {Null} \cup {List(l) : l \in Lists(IncludePaths, MaxInclude)}

InitInclude ==
    /\ criteria \in {Dict(EmptyMap), Dict([certification |-> Str(<<"r">>)])}
    /\ includeFields \in IncludeListsWide
    /\ movies = None
    /\ pos = 0
    /\ results = <<>>
    /\ result = None
    /\ pc = "fetch"
    /\ IdleFilter
    /\ IdleEdit
    /\ IdleAdd
    /\ IdleInfo
    /\ IdleCalls

SpecInclude == InitInclude /\ [][NextSearch]_vars

(* Claims about the records search_for_movie returns *)

MinimalFields == {"id", "title", "year", "tmdbId"}
\* the call returned a record for every movie fetched
AllReturned ==
    /\ pc = "done" /\ criteria # None /\ movies # None
    /\ IsList(result)
    /\ Len(result.v) = Len(movies.v)
\* the fields of includeFields, a list of field names
Included ==
    IF Falsy(includeFields) THEN {}
    ELSE {includeFields.v[j][1] : j \in 1..Len(includeFields.v)}
FieldNamesOnly ==
    Falsy(includeFields)
        \/ \A j \in 1..Len(includeFields.v) : Len(includeFields.v[j]) = 1

-----------------------------------------------------------------------------
(* search_for_movie on the year alone, server.py:359-372 *)

\* the years the bounds are drawn from: the years of the movies and one between
YearBounds == {Num(1999), Num(2002), Num(2005)}

YearCriteria ==
    YearBounds \cup {Dict(f) : f \in Maps({"gt", "lt", "eq"}, YearBounds)}

InitYear ==
    /\ criteria \in {Dict([year |-> c]) : c \in YearCriteria}
    /\ includeFields = Null
    /\ movies = None
    /\ pos = 0
    /\ results = <<>>
    /\ result = None
    /\ pc = "fetch"
    /\ IdleFilter
    /\ IdleEdit
    /\ IdleAdd
    /\ IdleInfo
    /\ IdleCalls

SpecYear == InitYear /\ [][NextSearch]_vars

(* search_for_movie on movieFile.size alone, server.py:381-391 *)

SizeBounds == {Num(1), Num(5), Num(9)}

SizeCriteria == {Dict(f) : f \in Maps({"gt", "lt"}, SizeBounds)}

InitSize ==
    /\ criteria \in {Dict([k \in {"movieFile.size"} |-> c]) : c \in SizeCriteria}
    /\ includeFields = Null
    /\ movies = None
    /\ pos = 0
    /\ results = <<>>
    /\ result = None
    /\ pc = "fetch"
    /\ IdleFilter
    /\ IdleEdit
    /\ IdleAdd
    /\ IdleInfo
    /\ IdleCalls

SpecSize == InitSize /\ [][NextSearch]_vars

(* Claims about the two criteria *)

\* the call has ended and the list of movies had been fetched
Searched == pc = "done" /\ criteria # None /\ movies # None
\* the list the call returns when exactly the movies that satisfy P match
RECURSIVE MinimalOf(_)
MinimalOf(ms) ==
    IF ms = <<>> THEN <<>>
    ELSE <<filter_movie_minimal(Head(ms), includeFields)>> \o MinimalOf(Tail(ms))
Returns(P(_)) == result = List(MinimalOf(SelectSeq(movies.v, P)))

HasYear(m) == "year" \in DOMAIN m.v
YearHolds(m) ==
    LET c == criteria.v["year"] IN
    IF IsDict(c)
    THEN /\ "eq" \in DOMAIN c.v => (HasYear(m) /\ m.v["year"].v = c.v["eq"].v)
         /\ "gt" \in DOMAIN c.v => (HasYear(m) /\ m.v["year"].v > c.v["gt"].v)
         /\ "lt" \in DOMAIN c.v => (HasYear(m) /\ m.v["year"].v < c.v["lt"].v)
    ELSE HasYear(m) /\ m.v["year"].v = c.v

\* C16: a scalar year criterion matches iff the record's year equals it; a
\* range object matches iff every bound it carries holds, gt and lt strict
\* and eq exact; a record without a year fails every range object that
\* carries a bound.
C16_YearCriterion ==
    (Searched /\ DOMAIN criteria.v = {"year"}) => Returns(YearHolds)

\* a movie whose year equals the bound gt has been left out, and the call
\* returned
C16_Witness ==
    /\ Searched /\ DOMAIN criteria.v = {"year"}
    /\ IsDict(criteria.v["year"])
    /\ DOMAIN criteria.v["year"].v = {"gt"}
    /\ Len(movies.v) = 1
    /\ HasYear(movies.v[1])
    /\ movies.v[1].v["year"] = criteria.v["year"].v["gt"]
    /\ result = List(<<>>)

\* the record has a movieFile with a size
HasSize(m) ==
    /\ "movieFile" \in DOMAIN m.v
    /\ IsDict(m.v["movieFile"])
    /\ "size" \in DOMAIN m.v["movieFile"].v
SizeHolds(m) ==
    LET c == criteria.v["movieFile.size"] IN
    /\ HasSize(m)
    /\ "gt" \in DOMAIN c.v => m.v["movieFile"].v["size"].v > c.v["gt"].v
    /\ "lt" \in DOMAIN c.v => m.v["movieFile"].v["size"].v < c.v["lt"].v

\* C17: a record with no movieFile, or with a movieFile without a size,
\* fails every range object, the empty one too, and the call does not raise;
\* a record with a size matches iff size > gt and size < lt for each bound
\* supplied.
C17_SizeCriterion ==
    (Searched /\ DOMAIN criteria.v = {"movieFile.size"}) => Returns(SizeHolds)

NullFile(m) == "movieFile" \in DOMAIN m.v /\ m.v["movieFile"] = Null

\* what the code keeps of C17: the statement holds of the lists in which no
\* record has a null movieFile, and a list with one makes the call raise
C17_SizeCriterionUnlessNull ==
    (Searched /\ DOMAIN criteria.v = {"movieFile.size"}) =>
        IF \E j \in 1..Len(movies.v) : NullFile(movies.v[j])
        THEN result = Raised("AttributeError")
        ELSE Returns(SizeHolds)

-----------------------------------------------------------------------------
(* filter_keys on one dotted key-path and records of some depth *)

MaxDepth == 4       \* the longest key-path, and the depth of the records

Segments == <<"a", "b", "c", "d", "e", "f">>

\* the values a record may hold under Segments[i - 1]: a scalar, null, an
\* empty mapping or sequence, or a mapping or a sequence of one mapping that
\* holds such a value under Segments[i]
RECURSIVE Trees(_)
Trees(i) ==
    IF i > MaxDepth THEN {Num(1), Null}
    ELSE {Num(1), Null, Dict(EmptyMap), List(<<>>)}
            \cup {Dict(Put(EmptyMap, Segments[i], v)) : v \in Trees(i + 1)}
            \cup {List(<<Dict(Put(EmptyMap, Segments[i], v))>>) : v \in Trees(i + 1)}

DeepRecords ==
    {Dict(EmptyMap)}
        \cup {Dict(Put(EmptyMap, "a", v)) : v \in Trees(2)}
        \cup {Dict(Put(Put(EmptyMap, "a", v), "o", Num(2))) : v \in Trees(2)}

DottedPaths ==
    {SubSeq(Segments, 1, n) : n \in 2..MaxDepth}
        \cup {<<"a", "x">>, <<"z", "b">>, <<"a", "*", "c">>}

InitAbsent ==
    /\ data \in DeepRecords
    /\ keys \in {<<p>> : p \in DottedPaths}
    /\ result = None
    /\ again = None
    /\ source = None
    /\ pc = "call"
    /\ pos = 0
    /\ IdleSearch
    /\ IdleEdit
    /\ IdleAdd
    /\ IdleInfo
    /\ IdleCalls

SpecAbsent == InitAbsent /\ [][NextFilter]_vars

\* the values found in x at the end of key chain c, a list being transparent
RECURSIVE ValuesAt(_, _)
ValuesAt(x, c) ==
    IF c = <<>> THEN {x}
    ELSE IF IsList(x) THEN UNION {ValuesAt(x.v[i], c) : i \in 1..Len(x.v)}
    ELSE IF IsDict(x) /\ Head(c) \in DOMAIN x.v THEN ValuesAt(x.v[Head(c)], Tail(c))
    ELSE {}

\* the chain of key-path p is broken in r: r has no value at the end of p
Broken(p, r) == ~ \E c \in Chains(r) : Len(c) = Len(p) /\ Reaches(p, c)

\* C18: for a record r and a dotted key-path p whose chain is broken in r,
\* filter_keys(r, [p]) returns a mapping (it raises nothing) whose keys are
\* only those of the mappings and sequences that r has along p, short of
\* the end of p.
C18_AbsentPath ==
    (result # None /\ Len(keys) = 1 /\ Len(keys[1]) > 1 /\ Broken(keys[1], data)) =>
        /\ IsDict(result)
        /\ \A c \in Chains(result) :
            /\ Len(c) < Len(keys[1])
            /\ Reaches(keys[1], c)
            /\ c \in Chains(data)
            /\ \E v \in ValuesAt(data, c) : IsDict(v) \/ IsList(v)

\* a path of four segments broken at its third by a scalar: the two
\* mappings above it are kept, empty
C18_Witness ==
    /\ result # None
    /\ keys = <<<<"a", "b", "c", "d">>>>
    /\ Broken(keys[1], data)
    /\ ValuesAt(data, <<"a", "b", "c">>) = {Num(1)}
    /\ result = Dict([a |-> Dict([b |-> Dict(EmptyMap)])])

-----------------------------------------------------------------------------
(* convert_urls_to_absolute called twice on one record, filters.py:87-153 *)

FrameLeaves == {Str(<<"/", "a">>), Num(1), Bool(TRUE), Null}
FrameItems == {Str(<<"b">>), Bool(TRUE)}

FrameRecords ==
    {Dict(f) : f \in {g \in Maps({"u", "n", "images"},
                                  FrameLeaves
                                    \cup {Dict([url |-> Str(<<"/", "a">>)]),
                                          Dict([url |-> Null])}
                                    \cup {List(l) : l \in Lists(FrameItems, MaxListLen)}) :
        /\ "u" \in DOMAIN g => g["u"] \in FrameLeaves
        /\ "n" \in DOMAIN g => IsDict(g["n"])
        /\ "images" \in DOMAIN g => IsList(g["images"])}}

FramePaths == {<<"u">>, <<"n">>, <<"n", "url">>, <<"images", "*">>, <<"*">>}

\* the paths of the later call: a segment missing at the top, one missing
\* below, and paths that name what the records have
LaterPaths == {<<"x">>, <<"x", "url">>, <<"n", "x", "url">>, <<"n", "url">>, <<"u">>}

InitFrame ==
    /\ data \in FrameRecords
    /\ keys \in Lists(FramePaths, MaxKeys)
    /\ source = data
    /\ result = None
    /\ again = None
    /\ pc = "call"
    /\ pos = 0
    /\ IdleSearch
    /\ IdleEdit
    /\ IdleAdd
    /\ IdleInfo
    /\ IdleCalls

\* a later call, with one path, on the record the first call changed
ConvertLater ==
    /\ result # None
    /\ again = None
    /\ \E p \in LaterPaths :
        /\ keys' = <<p>>
        /\ data' = convert_urls_to_absolute(data, <<p>>)
        /\ again' = data'
    /\ UNCHANGED <<result, source, pc, pos, searchVars, editVars, addVars, titleArg, api, calls>>

NextFrame == ConvertUrls \/ ConvertLater

SpecFrame == InitFrame /\ [][NextFrame]_vars

(* Claims about what the rewriter leaves alone *)

IsLeaf(x) == ~IsDict(x) /\ ~IsList(x)
\* after the first call and before a later one
Converted == source # None /\ result # None /\ again = None

\* C19: the call changes only non-empty string leaves that a path reaches:
\* the record keeps its keys and the lengths of its sequences, and every
\* leaf that is a number, a boolean or null, every mapping and sequence a
\* path ends at, and every leaf no path reaches, is what it was.
C19_OnlyStringsChange ==
    Converted =>
        /\ Places(result) = Places(source)
        /\ \A q \in Places(source) :
            LET v == At(source, q) IN
            /\ IsDict(v) => IsDict(At(result, q))
            /\ IsList(v) => IsList(At(result, q))
            /\ IsLeaf(v) =>
                \/ At(result, q) = v
                \/ IsStr(v) /\ v.v # <<>> /\ Hits(keys, q) >= 1

\* one call whose paths ended at a number or null, at a sequence and at a
\* mapping, and changed a string
C19_Witness ==
    /\ Converted
    /\ \E q1, q2, q3 \in Places(source) :
        /\ Hits(keys, q1) >= 1 /\ At(source, q1) \in {Num(1), Null}
        /\ Hits(keys, q2) >= 1 /\ IsList(At(source, q2))
        /\ Hits(keys, q3) >= 1 /\ IsDict(At(source, q3))
    /\ result # source

\* a literal segment of path p is missing from x: following p from x
\* through mappings, a segment is not a key of the mapping reached
RECURSIVE SegmentMissing(_, _)
SegmentMissing(p, x) ==
    /\ p # <<>>
    /\ Head(p) # "*"
    /\ IsDict(x)
    /\ \/ Head(p) \notin DOMAIN x.v
       \/ SegmentMissing(Tail(p), x.v[Head(p)])

\* C20: a path with a literal segment that the record lacks is ignored: the
\* call returns the record with every value, those an earlier call rewrote
\* included, as it was.
C20_MissingSegmentIgnored ==
    (again # None /\ SegmentMissing(keys[1], result)) =>
        /\ again = result
        /\ data = result

\* a later call with a path broken below the top left alone a record that
\* the first call had rewritten
C20_Witness ==
    /\ again # None
    /\ keys = <<<<"n", "x", "url">>>>
    /\ "n" \in DOMAIN result.v
    /\ result # source
    /\ result.v["n"] = Dict([url |-> Str(<<"h", ":", "/", "a">>)])
    /\ again = result

-----------------------------------------------------------------------------
(* radarr_status on every value of 'monitored' *)

\* C21: for every source record, whatever is stored under 'monitored',
\* radarr_status returns, raising nothing, a status whose tracked, monitored
\* and downloaded are each a boolean, never null or absent.
C21_AlwaysBooleans ==
    result # None =>
        /\ IsDict(result)
        /\ \A k \in {"tracked", "monitored", "downloaded"} :
            k \in DOMAIN result.v /\ result.v[k].t = "bool"

\* what the code keeps of C21: tracked and downloaded are booleans whenever
\* the call returns, monitored is null for a null 'monitored', and a value
\* pydantic does not read as a boolean makes the call raise
C21_BooleansUnlessMonitored ==
    result # None =>
        LET monitored == Get(data.v, "monitored", Bool(FALSE)) IN
        IF BoolField(monitored).t = "raise" THEN result = Raised("ValidationError")
        ELSE /\ IsDict(result)
             /\ result.v["tracked"].t = "bool"
             /\ result.v["downloaded"].t = "bool"
             /\ result.v["monitored"].t = "null" <=> monitored = Null

-----------------------------------------------------------------------------
(* Concurrent invocations of the tools, server.py:23-54, 105-146, 321-394 *)

MaxCalls == 2       \* the invocations in flight together

\* RadarrAPI.__init__, server.py:23-26: the object every invocation shares
RadarrAPI(url, api_key) == [url |-> url, api_key |-> api_key]
SharedApi == RadarrAPI(api_url, <<"k">>)

\* RadarrAPI.request up to its await, lines 32-45: the request an invocation
\* sends, built from the shared object's url and api_key
ConcRequest(a, endpoint) ==
    [method |-> "GET", uri |-> a.url \o <<"/api/v3/">> \o endpoint,
     key |-> a.api_key]

\* the frame of one invocation: its arguments and its locals
Frame(kind, crit, include, title) ==
    [kind |-> kind, criteria |-> crit, includeFields |-> include,
     title |-> title, pc |-> "start", request |-> None, answer |-> None,
     movies |-> None, result |-> None]

\* the invocations that run together: two searches and two movie_info calls
ConcArgs ==
    {Frame("search", Dict([name |-> Str(<<"a">>)]), Null, None),
     Frame("search", Dict([year |-> Num(1999)]),
           List(<<<<"genres">>, <<"id">>>>), None),
     Frame("info", None, Null, Str(<<"a", "b">>)),
     Frame("info", None, Null, Str(<<"b">>))}

\* what the remote answers GET movie with, one answer per request
ConcAnswers ==
    {Answer(200, List(<<>>)), Answer(200, List(<<Full>>)),
     Answer(200, List(<<Other, Full>>)), Answer(500, ServerErrorBody)}

\* what an invocation returns on the movies fetched: lines 338-394 of
\* search_for_movie, lines 128-146 of movie_info
AfterFetch(f, ms) ==
    IF f.kind = "search"
    THEN RunSearch(ms.v, f.criteria.v, f.includeFields, CodeOrder, <<>>)
    ELSE movie_info_loop(ms.v, f.title)

\* an invocation that keeps the movies fetched where the others read theirs
ResumeShared(cs, i) ==
    LET fetched == api_request(cs[i].answer) IN
    IF fetched.t = "RadarrError"
    THEN [cs EXCEPT ![i].result = Raised("RadarrError"), ![i].pc = "done"]
    ELSE [j \in DOMAIN cs |->
            IF j = i
            THEN [cs[i] EXCEPT !.movies = fetched,
                               !.result = AfterFetch(cs[i], fetched),
                               !.pc = "done"]
            ELSE [cs[j] EXCEPT !.movies = fetched,
                               !.result = IF cs[j].pc = "done"
                                          THEN AfterFetch(cs[j], fetched)
                                          ELSE cs[j].result]]

\* lines 337 and 127: the await returns into the local 'movies' of the
\* invocation, or api.request raises out of it; the rest of the method runs
\* on that local without another await
Resume(cs, i) ==
    LET fetched == api_request(cs[i].answer) IN
    IF fetched.t = "RadarrError"
    THEN [cs EXCEPT ![i].result = Raised("RadarrError"), ![i].pc = "done"]
    ELSE [cs EXCEPT ![i].movies = fetched,
                    ![i].result = AfterFetch(cs[i], fetched),
                    ![i].pc = "done"]

InitConc ==
    /\ api = SharedApi
    /\ calls \in [1..MaxCalls -> ConcArgs]
    /\ result = None
    /\ pc = "calls"
    /\ pos = 0
    /\ IdleFilter
    /\ IdleSearch
    /\ IdleEdit
    /\ IdleAdd
    /\ IdleInfo

ConcFrame ==
    UNCHANGED <<filterVars, searchVars, editVars, addVars, titleArg, api,
                pc, pos, result>>

\* an invocation runs up to its await: it sends GET movie
ConcStart(i) ==
    /\ calls[i].pc = "start"
    /\ calls' = [calls EXCEPT ![i].request = ConcRequest(api, <<"movie">>),
                              ![i].pc = "awaiting"]
    /\ ConcFrame

\* the remote answers an invocation, which runs from its await to its return
ConcResume(i) ==
    /\ calls[i].pc = "awaiting"
    /\ \E ans \in ConcAnswers :
        calls' = Resume([calls EXCEPT ![i].answer = ans], i)
    /\ ConcFrame

NextConc ==
    \/ \E i \in DOMAIN calls : ConcStart(i)
    \/ \E i \in DOMAIN calls : ConcResume(i)

SpecConc == InitConc /\ [][NextConc]_vars

(* Helpers for the claim *)

\* what the invocation of frame f returns running alone on the answer ans
RECURSIVE MatchingMinimal(_, _)
MatchingMinimal(f, ms) ==
    IF ms = <<>> THEN <<>>
    ELSE (IF MovieMatches(Head(ms), f.criteria) = "pass"
          THEN <<filter_movie_minimal(Head(ms), f.includeFields)>>
          ELSE <<>>) \o MatchingMinimal(f, Tail(ms))
Alone(f, ans) ==
    IF ans.status >= 400 THEN Raised("RadarrError")
    ELSE IF f.kind = "search" THEN List(MatchingMinimal(f, ans.body.v))
    ELSE LET hits == {j \in 1..Len(ans.body.v) :
                        TitleMatches(ans.body.v[j], f.title)} IN
         IF hits = {} THEN Null
         ELSE MovieDetailsFull(filter_keys(ans.body.v[Least(hits)], InfoKeys))
Arguments(f) == [f EXCEPT !.pc = "start", !.request = None, !.answer = None,
                          !.movies = None, !.result = None]

\* C22: in every interleaving of the invocations at their await, the shared
\* RadarrAPI keeps its url and api_key, an invocation that has not resumed
\* holds nothing another one fetched, and an invocation that returned holds
\* the movies of its own answer and the result it returns alone on them.
C22_NoInterference ==
    api # None =>
        /\ api = SharedApi
        /\ \A i \in DOMAIN calls :
            LET f == calls[i] IN
            /\ Arguments(f) \in ConcArgs
            /\ f.pc = "start" => f = Arguments(f)
            /\ f.pc = "awaiting" =>
                /\ f.request = ConcRequest(SharedApi, <<"movie">>)
                /\ f.answer = None /\ f.movies = None /\ f.result = None
            /\ f.pc = "done" =>
                /\ f.movies = IF f.answer.status >= 400 THEN None
                              ELSE f.answer.body
                /\ f.result = Alone(f, f.answer)

\* the second invocation returned a movie while the first, a search that was
\* sent, still waits for its answer
C22_Witness ==
    /\ api # None
    /\ calls[1].pc = "awaiting"
    /\ calls[1].kind = "search"
    /\ calls[2].pc = "done"
    /\ calls[2].kind = "info"
    /\ calls[2].result.t = "MovieDetailsFull"

\* two invocations with the same arguments returned, each on its own answer,
\* with different results
C22_BothReturned ==
    /\ api # None
    /\ calls[1].pc = "done" /\ calls[2].pc = "done"
    /\ Arguments(calls[1]) = Arguments(calls[2])
    /\ calls[1].result # calls[2].result
    /\ calls[1].result.t = "list" /\ calls[2].result.t = "list"

-----------------------------------------------------------------------------
(* filter_keys on a sequence, at the top and under a key, filters.py:13-14,
   35-36, 40-41 *)

MaxSeqLen == 3      \* the longest sequence projected

\* the elements of a sequence: mappings, and values that are no mapping
SeqItems ==
    {Dict([x |-> Num(1)]), Dict([x |-> Num(2), y |-> Num(1)]), Dict(EmptyMap),
     Num(1), Null, Str(<<"x">>), List(<<Dict([x |-> Num(1)])>>)}
SeqValues == {List(s) : s \in Lists(SeqItems, MaxSeqLen)}

\* the sequence itself, or a record that holds it under 'a'
SeqData == SeqValues \cup {Dict([a |-> q, b |-> Num(1)]) : q \in SeqValues}

SeqKeyLists ==
    {<<<<"x">>>>, <<<<"y">>, <<"x">>>>, <<<<"a", "x">>>>, <<<<"a">>, <<"a", "y">>>>,
     <<<<"*", "x">>, <<"b">>>>, <<<<"*", "y">>, <<"a", "x">>>>}

InitSeq ==
    /\ data \in SeqData
    /\ keys \in SeqKeyLists
    /\ IsDict(data) <=> \E i \in 1..Len(keys) : Len(keys[i]) = 2
    /\ result = None
    /\ again = None
    /\ source = None
    /\ pc = "call"
    /\ pos = 0
    /\ IdleSearch
    /\ IdleEdit
    /\ IdleAdd
    /\ IdleInfo
    /\ IdleCalls

SpecSeq == InitSeq /\ [][NextFilter]_vars

(* Helpers for the claim *)

\* the places of the mappings of a sequence, and the place of the j-th
Mappings(q) == {i \in 1..Len(q) : IsDict(q[i])}
NthMapping(q, j) ==
    CHOOSE i \in Mappings(q) : Cardinality({k \in Mappings(q) : k <= i}) = j

\* out is the projection by ks of the mappings of q, in q's order
ProjectsMappings(out, q, ks) ==
    /\ IsList(out)
    /\ Len(out.v) = Cardinality(Mappings(q))
    /\ \A j \in 1..Len(out.v) : out.v[j] = filter_keys(q[NthMapping(q, j)], ks)

\* C23: filter_keys on a sequence gives, in the input's order, the
\* projection of exactly its elements that are mappings, and the same for a
\* sequence stored under the first segment of a dotted path.
C23_SequenceProjection ==
    result # None =>
        IF IsList(data) THEN ProjectsMappings(result, data.v, keys)
        ELSE /\ "a" \in DOMAIN result.v
             /\ \E g \in {"a", "*"} :
                    ProjectsMappings(result.v["a"], data.v["a"].v, Subkeys(keys, g))

\* a sequence whose first and last elements are mappings with a value that is
\* none between them was projected, at the top or under 'a'
C23_Witness ==
    /\ result # None
    /\ LET q == IF IsList(data) THEN data.v ELSE data.v["a"].v
           out == IF IsList(data) THEN result ELSE result.v["a"]
       IN  /\ Len(q) = 3
           /\ Mappings(q) = {1, 3}
           /\ q[1] # q[3]
           /\ Len(out.v) = 2
           /\ out.v[1] # out.v[2]
    /\ again # None

-----------------------------------------------------------------------------
(* The order of the key-paths of filter_keys *)

\* the key-path lists that list the key-paths of ks in another order
Permuted(ks) ==
    {[i \in 1..Len(ks) |-> ks[f[i]]] :
        f \in {g \in [1..Len(ks) -> 1..Len(ks)] :
                \A i, j \in 1..Len(ks) : g[i] = g[j] => i = j}}

\* the first segments of the dotted key-paths of ks
Groups(ks) == {ks[i][1] : i \in {j \in 1..Len(ks) : Len(ks[j]) > 1}}

\* C24: filter_keys(r, F) and filter_keys(r, F') are equal for every record r
\* and every two key-path lists F and F' that list the same key-paths in
\* different orders.
C24_OrderIrrelevant ==
    result # None => \A ks \in Permuted(keys) : filter_keys(data, ks) = result

\* what the code keeps of C24: the order is irrelevant unless the list has a
\* wildcard group next to a literal group
C24_OrderIrrelevantWithinGroups ==
    (result # None /\ ~("*" \in Groups(keys) /\ Groups(keys) # {"*"})) =>
        \A ks \in Permuted(keys) : filter_keys(data, ks) = result

-----------------------------------------------------------------------------
(* filter_movie, filters.py:44-70 *)

\* lines 45-58
MovieKeys ==
    <<<<"id">>, <<"title">>, <<"originalTitle">>, <<"year">>, <<"status">>,
      <<"overview">>, <<"inCinemas">>, <<"studio">>, <<"runtime">>, <<"genres">>,
      <<"imdbId">>, <<"tmdbId">>, <<"certification">>, <<"hasFile">>, <<"path">>,
      <<"monitored">>, <<"qualityProfileId">>,
      <<"ratings", "*", "value">>, <<"ratings", "*", "votes">>,
      <<"images", "coverType">>, <<"images", "remoteUrl">>, <<"images", "url">>,
      <<"movieFile", "size">>, <<"movieFile", "quality", "name">>,
      <<"movieFile", "languages">>,
      <<"movieFile", "mediaInfo", "audioChannels">>,
      <<"movieFile", "mediaInfo", "audioCodec">>,
      <<"movieFile", "mediaInfo", "videoDynamicRange">>,
      <<"movieFile", "mediaInfo", "subtitles">>,
      <<"popularity">>>>

\* a pydantic model with extra="allow" validated from a mapping: the declared
\* fields, None where the mapping lacks them, and every other key kept
Model(fields, d) == Dict([k \in fields \cup DOMAIN d |-> Get(d, k, Null)])

\* types.py:11-28, 71-86, 110-124: the nested models of a movie
MediaInfoFields ==
    {"audioChannels", "audioCodec", "audioLanguages", "audioStreamCount",
     "videoBitDepth", "videoBitrate", "videoCodec", "videoFps", "videoDynamicRange",
     "videoDynamicRangeType", "resolution", "runTime", "scanType", "subtitles",
     "audioBitrate"}
MovieFileFields ==
    {"id", "movieId", "relativePath", "path", "size", "dateAdded", "edition",
     "quality", "mediaInfo", "languages", "customFormatScore", "indexerFlags",
     "qualityCutoffNotMet"}
MovieFileMediaInfoFull(d) == IF d = Null THEN Null ELSE Model(MediaInfoFields, d.v)
MovieFileFull(d) ==
    IF d = Null THEN Null
    ELSE Model(MovieFileFields,
               IF "mediaInfo" \in DOMAIN d.v
               THEN Put(d.v, "mediaInfo", MovieFileMediaInfoFull(d.v["mediaInfo"]))
               ELSE d.v)
RatingFull(d) == Model({"votes", "value", "type"}, d.v)
Image(d) == Model({"coverType", "url", "remoteUrl"}, d.v)

\* pydantic's validation of an Optional[int] field: None and integers pass
IntField(x) == IF x.t \in {"null", "num"} THEN x ELSE Raised("ValidationError")

\* lines 64-70: MovieDetailsFull.model_validate(filtered_movie), the nested
\* mappings validated as their models, or RadarrError(e.errors(), 500)
ValidateDetails(filtered) ==
    LET f == filtered.v
        year == IntField(Get(f, "year", Null))
        monitored == BoolField(Get(f, "monitored", Null))
        bad == {k \in {"year", "monitored"} :
                    (IF k = "year" THEN year ELSE monitored).t = "raise"}
        nested ==
            [k \in DOMAIN f |->
                IF k = "movieFile" THEN MovieFileFull(f[k])
                ELSE IF k = "images" /\ IsList(f[k])
                THEN List([i \in 1..Len(f[k].v) |-> Image(f[k].v[i])])
                ELSE IF k = "ratings" /\ IsDict(f[k])
                THEN Dict([p \in DOMAIN f[k].v |-> RatingFull(f[k].v[p])])
                ELSE IF k = "monitored" THEN monitored
                ELSE f[k]]
    IN  IF bad # {} THEN RadarrError(bad, 500)
        ELSE MovieDetailsFull(Dict(nested))

\* line 63 with the status derived from the projected record
AttachStatusOfFiltered(filtered, movie) ==
    LET status == radarr_status(filtered) IN
    IF status.t = "raise" THEN status
    ELSE Dict(Put(filtered.v, "radarr_status", status))

\* line 63: filtered_movie["radarr_status"] = radarr_status(movie), or what
\* radarr_status raises
AttachStatus(filtered, movie) ==
    LET status == radarr_status(movie) IN
    IF status.t = "raise" THEN status
    ELSE Dict(Put(filtered.v, "radarr_status", status))

(* The inputs of filter_movie *)

Absent == None
Present(f) == Dict([k \in {x \in DOMAIN f : f[x] # Absent} |-> f[k]])

MovieImages ==
    {Absent,
     List(<<Dict([coverType |-> Str(<<"p">>), url |-> Str(<<"/", "a">>)])>>),
     List(<<Dict([coverType |-> Str(<<"p">>)])>>)}
MovieFiles ==
    {Absent, Null, Dict([size |-> Num(5)]), Dict([relativePath |-> Str(<<"p">>)]),
     Dict([size |-> Num(5), mediaInfo |-> Dict([audioCodec |-> Str(<<"c">>)])])}
MovieRatings ==
    {Absent, Dict([imdb |-> Dict([value |-> Num(7), type |-> Str(<<"u">>)])])}

SourceMovies ==
    {Present([id |-> i, monitored |-> m, year |-> y, images |-> im,
              movieFile |-> mf, ratings |-> ra, sortTitle |-> Str(<<"s">>)]) :
        i \in {Absent, Num(1)},
        m \in {Absent, Bool(TRUE), Null, Str(<<"x">>)},
        y \in {Absent, Num(1999), Str(<<"x">>)},
        im \in MovieImages, mf \in MovieFiles, ra \in MovieRatings}

\* data is the argument movie, again the local filtered_movie
InitMovie ==
    /\ data \in SourceMovies
    /\ keys = MovieKeys
    /\ again = None
    /\ source = None
    /\ result = None
    /\ pc = "project"
    /\ pos = 0
    /\ IdleSearch
    /\ IdleEdit
    /\ IdleAdd
    /\ IdleInfo
    /\ IdleCalls

MovieFrame ==
    UNCHANGED <<data, keys, source, pos, searchVars, editVars, addVars, titleArg,
                api, calls>>

\* line 59
MovieProject ==
    /\ pc = "project"
    /\ again' = filter_keys(data, keys)
    /\ pc' = "rewrite"
    /\ UNCHANGED result
    /\ MovieFrame

\* line 61
MovieRewrite ==
    /\ pc = "rewrite"
    /\ again' = convert_urls_to_absolute(again, <<<<"images", "*", "url">>>>)
    /\ pc' = "status"
    /\ UNCHANGED result
    /\ MovieFrame

\* line 63
MovieStatus ==
    /\ pc = "status"
    /\ LET attached == AttachStatus(again, data) IN
       IF attached.t = "raise"
       THEN result' = attached /\ pc' = "done" /\ UNCHANGED again
       ELSE again' = attached /\ pc' = "validate" /\ UNCHANGED result
    /\ MovieFrame

\* lines 64-70
MovieValidate ==
    /\ pc = "validate"
    /\ result' = ValidateDetails(again)
    /\ pc' = "done"
    /\ UNCHANGED again
    /\ MovieFrame

NextMovie == MovieProject \/ MovieRewrite \/ MovieStatus \/ MovieValidate

SpecMovie == InitMovie /\ [][NextMovie]_vars

(* Helpers for the claim *)

Rewritten == convert_urls_to_absolute(filter_keys(data, MovieKeys),
                                      <<<<"images", "*", "url">>>>)
Returned == pc = "done" /\ result.t = "MovieDetailsFull"

\* C25: the status filter_movie attaches is radarr_status of the source
\* movie, so downloaded is true whenever the source has a 'movieFile' key,
\* also when the projection has none; it is attached to the projected and
\* rewritten record, and only then is the record validated.
C25_StatusFromSource ==
    /\ pc \in {"project", "rewrite", "status"} =>
        /\ result = None
        /\ again # None => "radarr_status" \notin DOMAIN again.v
        /\ pc = "status" => again = Rewritten
    /\ pc = "validate" =>
        /\ result = None
        /\ again = Dict(Put(Rewritten.v, "radarr_status", radarr_status(data)))
    /\ Returned =>
        /\ result.v["radarr_status"] = radarr_status(data)
        /\ "movieFile" \in DOMAIN data.v =>
                result.v["radarr_status"].v["downloaded"] = Bool(TRUE)
    /\ (pc = "done" /\ radarr_status(data).t = "raise") =>
        result = radarr_status(data)

\* a movie whose 'movieFile' is null was returned: the projection has no
\* movieFile, the status says downloaded, and the image url was rewritten
C25_Witness ==
    /\ Returned
    /\ "movieFile" \in DOMAIN data.v
    /\ "movieFile" \notin DOMAIN again.v
    /\ result.v["movieFile"] = Null
    /\ result.v["radarr_status"].v["downloaded"] = Bool(TRUE)
    /\ result.v["radarr_status"].v["tracked"] = Bool(TRUE)
    /\ "images" \in DOMAIN data.v
    /\ result.v["images"] # Null
    /\ result.v["images"].v[1].v["url"] = Str(api_url \o <<"/", "a">>)

-----------------------------------------------------------------------------
(* The wildcard of convert_urls_to_absolute, filters.py:109-146 *)

MaxImages == 2      \* the longest sequence under 'images'

\* the elements of 'images': mappings with a url, without one, with a url
\* that is no string, and elements that are no mapping
WildItems ==
    {Dict([url |-> Str(<<"/", "a">>)]), Dict([url |-> Str(<<"b">>), alt |-> Str(<<"c">>)]),
     Dict([alt |-> Str(<<"c">>)]), Dict([url |-> Num(1)]),
     Str(<<"/", "a">>), Str(<<>>), Num(1)}
WildMaps ==
    {Absent,
     Dict([p |-> Dict([url |-> Str(<<"/", "a">>)]), q |-> Str(<<"b">>)]),
     Dict([p |-> Dict([alt |-> Str(<<"c">>)]), q |-> Dict([url |-> Str(<<"b">>)]),
           r |-> Null])}
WildRecords ==
    {Present([images |-> List(l), n |-> m]) :
        l \in Lists(WildItems, MaxImages), m \in WildMaps}
WildPaths ==
    {<<"images", "*", "url">>, <<"images", "*">>, <<"n", "*", "url">>, <<"n", "*">>,
     <<"*", "*", "url">>, <<"*", "*">>}

InitWild ==
    /\ data \in WildRecords
    /\ keys \in {<<p>> : p \in WildPaths}
    /\ source = data
    /\ result = None
    /\ again = None
    /\ pc = "call"
    /\ pos = 0
    /\ IdleSearch
    /\ IdleEdit
    /\ IdleAdd
    /\ IdleInfo
    /\ IdleCalls

SpecWild == InitWild /\ [][NextUrls]_vars

(* Helpers for the claim *)

\* the entry under key or index s of a mapping or sequence
Entry(x, s) == x.v[s]
Entries(x) == IF IsDict(x) THEN DOMAIN x.v ELSE 1..Len(x.v)
\* what the rest 'url' of a path makes of one entry of the wildcard's level
UrlRewritten(e) ==
    IF IsDict(e) /\ "url" \in DOMAIN e.v
    THEN Dict(Put(e.v, "url", convert_url_value(e.v["url"])))
    ELSE e
\* what a final wildcard makes of one entry of its level
EntryRewritten(e) == IF IsStr(e) THEN convert_url_value(e) ELSE e
\* level after is level before with every entry changed by Change
Levelwise(before, after, Change(_)) ==
    /\ after.t = before.t
    /\ Entries(after) = Entries(before)
    /\ \A s \in Entries(before) : Entry(after, s) = Change(Entry(before, s))
WildAt(first, Change(_)) ==
    /\ DOMAIN result.v = DOMAIN source.v
    /\ \A k \in DOMAIN source.v :
        IF first \in {k, "*"}
        THEN Levelwise(source.v[k], result.v[k], Change)
        ELSE result.v[k] = source.v[k]

\* C26: under an intermediate wildcard the rest of the path is applied to
\* every value of a mapping and every element of a sequence, an entry the
\* rest does not fit being skipped and its siblings rewritten all the same;
\* under a final wildcard every string entry of the level is rewritten and
\* every other entry is kept.
C26_WildcardTraversal ==
    result # None =>
        LET path == keys[1] IN
        IF Len(path) = 3 THEN WildAt(path[1], UrlRewritten)
        ELSE WildAt(path[1], EntryRewritten)

\* 'images.*.url' on two elements, the first without a url: the first is
\* kept and the url of the second is rewritten
C26_Witness ==
    /\ result # None
    /\ keys = <<<<"images", "*", "url">>>>
    /\ Len(source.v["images"].v) = 2
    /\ source.v["images"].v[1] = Dict([alt |-> Str(<<"c">>)])
    /\ result.v["images"].v[1] = source.v["images"].v[1]
    /\ source.v["images"].v[2] = Dict([url |-> Str(<<"/", "a">>)])
    /\ result.v["images"].v[2] = Dict([url |-> Str(api_url \o <<"/", "a">>)])

-----------------------------------------------------------------------------
(* convert_urls_to_absolute again and again, filters.py:99-107, 148-153 *)

MaxRepeat == 2      \* the calls made on one record

\* leaves that are relative, that already begin with the base or with
\* 'http', empty, or no string
RepeatLeaves ==
    {Str(<<"/", "a">>), Str(<<"b">>), Str(api_url \o <<"/", "a">>),
     Str(<<"h", "t", "t", "p", ":", "/", "/", "x">>), Str(<<>>), Num(1)}
RepeatItems ==
    {Dict([url |-> Str(<<"/", "a">>)]),
     Dict([url |-> Str(api_url \o <<"/", "a">>), alt |-> Str(<<"b">>)]),
     Dict([url |-> Str(<<>>)])}
RepeatRecords ==
    {Present([u |-> x, images |-> List(l)]) :
        x \in RepeatLeaves \cup {Absent}, l \in Lists(RepeatItems, MaxListLen)}
RepeatPaths ==
    {<<"u">>, <<"*">>, <<"images", "*", "url">>, <<"images", "*", "*">>,
     <<"images", "*", "alt">>}

\* pos counts the calls made, result is the record after the first of them
InitRepeat ==
    /\ data \in RepeatRecords
    /\ keys \in Lists(RepeatPaths, MaxKeys)
    /\ source = data
    /\ result = None
    /\ again = None
    /\ pc = "call"
    /\ pos = 0
    /\ IdleSearch
    /\ IdleEdit
    /\ IdleAdd
    /\ IdleInfo
    /\ IdleCalls

\* one more call of convert_urls_to_absolute(data, keys, api) on the record
ConvertRepeat ==
    /\ pos < MaxRepeat
    /\ data' = convert_urls_to_absolute(data, keys)
    /\ result' = IF pos = 0 THEN data' ELSE result
    /\ pos' = pos + 1
    /\ UNCHANGED <<keys, again, source, pc, searchVars, editVars, addVars,
                   titleArg, api, calls>>

NextRepeat == ConvertRepeat

SpecRepeat == InitRepeat /\ [][NextRepeat]_vars

(* Helpers for the claim *)

\* n times the base and a slash
RECURSIVE Bases(_)
Bases(n) == IF n = 0 THEN <<>> ELSE api_url \o <<"/">> \o Bases(n - 1)
\* string v under n prefixes: the base before v the first time (with a slash
\* unless v begins with one), and the base and a slash every time after
Prefixes(v, n) ==
    IF n = 0 THEN v
    ELSE Bases(n - 1) \o api_url \o (IF Head(v) = "/" THEN v ELSE <<"/">> \o v)
\* the non-empty string leaves of the record the calls started from
StringPlaces ==
    {q \in Places(source) : IsStr(At(source, q)) /\ At(source, q).v # <<>>}

\* C27: every call prefixes every non-empty string its paths reach, whatever
\* the string begins with: after the calls made, a leaf that n paths of the
\* list reach carries n prefixes per call, and a second call changes again
\* what the first one changed.
C27_AlwaysPrefixes ==
    /\ \A q \in StringPlaces :
            At(data, q) = Str(Prefixes(At(source, q).v, pos * Hits(keys, q)))
    /\ (pos >= 2 /\ \E q \in StringPlaces : Hits(keys, q) > 0) => data # result

\* two calls with the paths 'images.*.url' and 'images.*.*' on a url that
\* began with the base: four more prefixes
C27_Witness ==
    /\ pos = 2
    /\ keys = <<<<"images", "*", "url">>, <<"images", "*", "*">>>>
    /\ "images" \in DOMAIN source.v
    /\ Len(source.v["images"].v) = 1
    /\ source.v["images"].v[1].v["url"] = Str(api_url \o <<"/", "a">>)
    /\ data.v["images"].v[1].v["url"] = Str(Bases(4) \o api_url \o <<"/", "a">>)
    /\ data # result

-----------------------------------------------------------------------------
(* lookup_movie, server.py:56-80, and MovieDetails.fromDetailsFull,
   types.py:248-288 *)

MaxLookup == 2      \* the longest list the remote lookup returns

\* filters.py:44-70 in one piece: the MovieDetailsFull, or what is raised
filter_movie(movie) ==
    LET filtered == convert_urls_to_absolute(filter_keys(movie, MovieKeys),
                                             <<<<"images", "*", "url">>>>)
        attached == AttachStatus(filtered, movie)
    IN  IF attached.t = "raise" THEN attached ELSE ValidateDetails(attached)

\* RatingMin.fromFull, types.py:208-210
RatingMin_fromFull(rating) ==
    Dict([value |-> rating.v["value"], votes |-> rating.v["votes"]])

\* MovieFileMediaInfoMin.fromFull, types.py:39-45: the attributes of None
\* cannot be read
MovieFileMediaInfoMin_fromFull(full) ==
    IF full = Null THEN Raised("AttributeError")
    ELSE Dict([k \in {"audioChannels", "audioCodec", "videoDynamicRange", "subtitles"}
                |-> full.v[k]])

\* MovieFileMin.fromFull, types.py:100-108
MovieFileMin_fromFull(full) ==
    LET mediaInfo == MovieFileMediaInfoMin_fromFull(full.v["mediaInfo"]) IN
    IF mediaInfo.t = "raise" THEN mediaInfo
    ELSE Dict([size |-> full.v["size"], quality |-> full.v["quality"],
               languages |-> full.v["languages"], mediaInfo |-> mediaInfo])

\* the fields fromDetailsFull passes to the constructor, types.py:252-272
BasicFields ==
    {"id", "title", "originalTitle", "year", "status", "overview", "inCinemas",
     "studio", "runtime", "genres", "imdbId", "tmdbId", "certification", "hasFile",
     "path", "monitored", "qualityProfileId", "popularity", "radarr_status"}

\* MovieDetails.fromDetailsFull, types.py:248-288; a model instance is true
\* whatever it holds, an empty dict or list is false
fromDetailsFull(full) ==
    LET f == full.v
        ratings == IF Falsy(f["ratings"]) THEN Null
                   ELSE Dict([p \in DOMAIN f["ratings"].v |->
                                RatingMin_fromFull(f["ratings"].v[p])])
        images == IF Falsy(f["images"]) THEN Null ELSE f["images"]
        movieFile == IF f["movieFile"] = Null THEN Null
                     ELSE MovieFileMin_fromFull(f["movieFile"])
    IN  IF movieFile.t = "raise" THEN movieFile
        ELSE [t |-> "MovieDetails",
              v |-> [k \in BasicFields \cup {"ratings", "images", "movieFile"} |->
                        CASE k = "ratings" -> ratings
                          [] k = "images" -> images
                          [] k = "movieFile" -> movieFile
                          [] OTHER -> f[k]]]

\* line 80: the comprehension over the records looked up; what one record
\* raises ends the call
RECURSIVE lookup_each(_)
lookup_each(ms) ==
    IF ms = <<>> THEN List(<<>>)
    ELSE LET full == filter_movie(Head(ms))
             details == IF full.t = "MovieDetailsFull" THEN fromDetailsFull(full)
                        ELSE full
             rest == lookup_each(Tail(ms))
         IN  IF details.t # "MovieDetails" THEN details
             ELSE IF rest.t # "list" THEN rest
             ELSE List(<<details>> \o rest.v)

(* The inputs of the lookup: records with and without their nested data *)

LookupMovies ==
    {Present([id |-> Num(1), title |-> Str(<<"A">>), monitored |-> Bool(TRUE),
              images |-> im, movieFile |-> mf, ratings |-> ra]) :
        im \in MovieImages, ra \in MovieRatings,
        mf \in MovieFiles \ {Null}}
Queries == {Str(<<"a">>), Str(<<"a", " ", "1">>)}

\* titleArg is the argument query
InitLookup ==
    /\ titleArg \in Queries
    /\ movies = None
    /\ result = None
    /\ pc = "lookup"
    /\ pos = 0
    /\ criteria = None /\ includeFields = Null /\ results = <<>>
    /\ IdleFilter
    /\ IdleEdit
    /\ IdleAdd
    /\ IdleCalls

\* the whole call: line 78 fetches, api.request raising ends the call, and
\* line 80 converts what was fetched
LookupCall ==
    /\ pc = "lookup"
    /\ \/ \E ms \in Lists(LookupMovies, MaxLookup) :
            /\ movies' = List(ms)
            /\ result' = lookup_each(ms)
       \/ /\ result' = Raised("RadarrError")
          /\ UNCHANGED movies
    /\ pc' = "looked"
    /\ UNCHANGED <<filterVars, criteria, includeFields, results, pos, editVars,
                   addVars, titleArg, api, calls>>

NextLookup == LookupCall

SpecLookup == InitLookup /\ [][NextLookup]_vars

(* Helpers for the claim *)

LookedUp28 == pc = "looked" /\ movies # None
\* result is one MovieDetails per record fetched, in order, each with the
\* status of its record
OnePerRecord ==
    /\ IsList(result)
    /\ Len(result.v) = Len(movies.v)
    /\ \A j \in 1..Len(movies.v) :
        /\ result.v[j].t = "MovieDetails"
        /\ result.v[j].v["radarr_status"] = radarr_status(movies.v[j])
        /\ \A k \in {"ratings", "images", "movieFile"} :
            k \notin DOMAIN movies.v[j].v => result.v[j].v[k] = Null
\* a record fetched has a movieFile that holds no mediaInfo
FileWithoutMediaInfo ==
    \E j \in 1..Len(movies.v) :
        /\ "movieFile" \in DOMAIN movies.v[j].v
        /\ "mediaInfo" \notin DOMAIN movies.v[j].v["movieFile"].v

\* C28: for every list of records the remote lookup returns, lookup_movie
\* returns one MovieDetails with a radarr_status per record, in order; a
\* record without ratings, without images, or with a movieFile that has no
\* mediaInfo, gives a result without that data and never fails the call.
C28_LookupDegrades == LookedUp28 => OnePerRecord

\* what the code keeps of C28: the call returns one result per record unless
\* a record has a movieFile without mediaInfo, and then it raises
C28_LookupUnlessNoMediaInfo ==
    LookedUp28 =>
        IF FileWithoutMediaInfo THEN result = Raised("AttributeError")
        ELSE OnePerRecord

-----------------------------------------------------------------------------
(* The requests of add_movie, server.py:228-249 *)

\* the requests add_movie makes, in the order of lines 230, 234 and 248
AddOrder ==
    <<[method |-> "GET", endpoint |-> <<"rootfolder">>],
      [method |-> "GET", endpoint |-> <<"movie/lookup/tmdb">>],
      [method |-> "POST", endpoint |-> <<"movie">>]>>

\* the requests made so far are the first ones of AddOrder, and a POST among
\* them came after a root folder request that succeeded and a lookup that
\* returned a movie, and carries the id, the folder, monitored and
\* addOptions.searchForMovie
RequestsInOrder ==
    /\ Len(requests) <= Len(AddOrder)
    /\ \A k \in 1..Len(requests) :
        /\ requests[k].method = AddOrder[k].method
        /\ requests[k].endpoint = AddOrder[k].endpoint
        /\ k > 1 => ~Failed(requests[k - 1])
    /\ Len(requests) = 3 =>
        /\ ~Falsy(requests[2].body)
        /\ requests[3].data.v["tmdbId"] = tmdbId
        /\ requests[3].data.v["rootFolderPath"] = rootFolderPath
        /\ requests[3].data.v["monitored"] = Bool(TRUE)
        /\ requests[3].data.v["addOptions"] = Dict([searchForMovie |-> Bool(TRUE)])

\* a step changes the local rootFolderPath only when the caller gave none,
\* to the path of the first root folder returned, and makes one request
FolderStep ==
    /\ Len(requests') = Len(requests) + 1
    /\ rootFolderPath' # rootFolderPath =>
        /\ Falsy(rootFolderPath)
        /\ Len(requests') = 1
        /\ rootFolderPath' = requests'[1].body.v[1].v["path"]
    /\ (pc' = "lookup" /\ Falsy(rootFolderPath)) => rootFolderPath' # rootFolderPath

\* C29: add_movie requests rootfolder, then movie/lookup/tmdb, then POST
\* movie; the POST is sent at most once and only after a lookup that
\* returned a movie; its payload has the caller's rootFolderPath when one is
\* given and else the path of the first root folder, monitored = true and
\* addOptions.searchForMovie = true.
C29_RequestOrder ==
    /\ [](Adding => RequestsInOrder)
    /\ [][Adding => FolderStep]_vars

\* the caller gave no folder and the POST went out with the first root
\* folder's path
C29_Witness ==
    /\ Adding /\ Finished
    /\ Len(requests) = 3
    /\ requests[3].method = "POST"
    /\ requests[3].data.v["rootFolderPath"] = Str(<<"/default">>)
    /\ requests[1].body.v[1].v["path"] = Str(<<"/default">>)
    /\ result.t = "ToolResponse"
    /\ result.v.isError = FALSE

\* the caller's folder went out with the POST
C29_GivenFolderPosted ==
    /\ Adding /\ Finished
    /\ Len(requests) = 3
    /\ requests[3].data.v["rootFolderPath"] = Str(<<"/given">>)

-----------------------------------------------------------------------------
(* What the projection shares with its source, filters.py:24-41, and what
   the rewrite of the projection does to the source, filters.py:109-146 *)

IsContainer(x) == IsDict(x) \/ IsList(x)

\* x with the value at place q replaced by val
RECURSIVE SetAt(_, _, _)
SetAt(x, q, val) ==
    IF q = <<>> THEN val
    ELSE IF Head(q).idx = 0
    THEN Dict(Put(x.v, Head(q).key, SetAt(x.v[Head(q).key], Tail(q), val)))
    ELSE List([x.v EXCEPT ![Head(q).idx] = SetAt(@, Tail(q), val)])

\* the pairs <<place in filter_keys(d, ks), place in d>> that hold one and
\* the same dict or list: lines 24-29 store data[k] itself, lines 30-41
\* build new dicts and lists, whose entries are shared in the same way
RECURSIVE SharedOf(_, _)
SharedOf(d, ks) ==
    LET top == TopLevel(ks)
        copied == (IF "*" \in top THEN DOMAIN d.v ELSE {}) \cup (top \cap DOMAIN d.v)
        order == NestedOrder(ks, {})
        GroupsOn(a) == {j \in 1..Len(order) : order[j] \in {a, "*"}}
        rebuilt == {a \in DOMAIN d.v : IsContainer(d.v[a]) /\ GroupsOn(a) # {}}
        LastGroup(a) == order[CHOOSE j \in GroupsOn(a) : \A k \in GroupsOn(a) : k <= j]
        Under(a, val, sub) ==
            IF IsDict(val)
            THEN {<<<<KeyStep(a)>> \o p[1], <<KeyStep(a)>> \o p[2]>> :
                    p \in SharedOf(val, sub)}
            ELSE UNION {
                    {<<<<KeyStep(a), IdxStep(j)>> \o p[1],
                       <<KeyStep(a), IdxStep(NthMapping(val.v, j))>> \o p[2]>> :
                        p \in SharedOf(val.v[NthMapping(val.v, j)], sub)} :
                    j \in 1..Cardinality(Mappings(val.v))}
    IN  {<<<<KeyStep(a)>>, <<KeyStep(a)>>>> :
            a \in {b \in copied \ rebuilt : IsContainer(d.v[b])}}
        \cup UNION {Under(a, d.v[a], Subkeys(ks, LastGroup(a))) : a \in rebuilt}

\* the source as it is once the projection holds the value changed: what is
\* shared is seen changed from the source too
RECURSIVE SeenFromSource(_, _, _)
SeenFromSource(src, shared, changed) ==
    IF shared = {} THEN src
    ELSE LET p == CHOOSE x \in shared : TRUE IN
         SeenFromSource(SetAt(src, p[2], At(changed, p[1])), shared \ {p}, changed)

(* The inputs of the pipeline *)

PipeRecords ==
    {Present([images |-> im, n |-> nn, u |-> uu]) :
        im \in {Absent, List(<<Dict([url |-> Str(<<"/", "a">>)])>>),
                List(<<Num(1), Dict([url |-> Str(<<"/", "a">>),
                                     meta |-> Dict([url |-> Str(<<"b">>)])])>>)},
        nn \in {Absent, Dict([url |-> Str(<<"/", "a">>)]),
                Dict([m |-> Dict([url |-> Str(<<"/", "a">>)])])},
        uu \in {Absent, Str(<<"/", "a">>)}}
PipeKeys ==
    {<<"images">>, <<"*">>, <<"images", "url">>, <<"images", "meta">>, <<"n">>,
     <<"n", "m">>, <<"n", "url">>, <<"u">>}
PipePaths ==
    {<<"images", "*", "url">>, <<"images", "*", "meta", "url">>, <<"n", "url">>,
     <<"n", "m", "url">>, <<"u">>, <<"*", "url">>}

\* data is the record r, source its value before the calls, keys the list F
InitPipeline ==
    /\ data \in PipeRecords
    /\ keys \in Lists(PipeKeys, MaxKeys)
    /\ source = data
    /\ result = None
    /\ again = None
    /\ pc = "project"
    /\ pos = 0
    /\ IdleSearch
    /\ IdleEdit
    /\ IdleAdd
    /\ IdleInfo
    /\ IdleCalls

PipelineFrame ==
    UNCHANGED <<keys, source, pos, searchVars, editVars, addVars, titleArg, api, calls>>

\* filter_keys(r, F): r is read, the projection shares with it
PipelineProject ==
    /\ pc = "project"
    /\ result' = filter_keys(data, keys)
    /\ pc' = "rewrite"
    /\ UNCHANGED <<data, again>>
    /\ PipelineFrame

\* convert_urls_to_absolute(projection, P): the projection is changed in
\* place, and with it what r shares with it; again keeps the list P
PipelineRewrite ==
    /\ pc = "rewrite"
    /\ \E p \in PipePaths :
        /\ again' = List(<<p>>)
        /\ result' = convert_urls_to_absolute(result, <<p>>)
        /\ data' = SeenFromSource(data, SharedOf(data, keys), result')
    /\ pc' = "done"
    /\ PipelineFrame

NextPipeline == PipelineProject \/ PipelineRewrite

SpecPipeline == InitPipeline /\ [][NextPipeline]_vars

\* C30: the calls convert_urls_to_absolute(filter_keys(r, F), P) leave the
\* record r, with every mapping and sequence inside it, equal to its value
\* before the calls.
C30_SourceUnchanged == data = source

\* what the code keeps of C30: r stays what it was when the projection
\* shares nothing with it, and what it shares is seen from r as the
\* projection has it
C30_SourceChangedWhereShared ==
    pc = "done" =>
        /\ SharedOf(source, keys) = {} => data = source
        /\ \A p \in SharedOf(source, keys) : At(data, p[2]) = At(result, p[1])

\* filter_movie reaches 'images' through dotted paths only: the rewrite of
\* 'images.*.url' changes nothing the source movie holds
C30_MovieSourceKept ==
    (pc \in {"status", "validate", "done"} /\ again # None) =>
        SeenFromSource(data, SharedOf(data, MovieKeys), Rewritten) = data

====
